---------------------------- MODULE Spec2Model ----------------------------
(***************************************************************************)
(* A model of the core of pipeline-plugin-system: the Context carrier,     *)
(* the Pipeline executor and the plugin Registry.                          *)
(*                                                                         *)
(*   Spec     one pipeline, one context, one Execute call at a time,       *)
(*            stepped one loop iteration at a time.                        *)
(*   RegSpec  one registry, Register and Get called one after another.     *)
(*   BuildSpec  a registry is filled, BuildPipeline is called once and the *)
(*            pipeline it built is executed.                               *)
(*   LockSpec goroutines call Register and Get under the registry's lock.  *)
(*   ConcSpec one pipeline executed against several contexts at once.      *)
(*   CtxSpec  one context under every Context method and under Execute.    *)
(*   ChatSpec the chatbot server: its five-plugin pipeline handling the    *)
(*            messages of two sessions, one fresh context per message.     *)
(*   FrameSpec  one context under its methods, each call recorded with the *)
(*            context before it.                                           *)
(*   GrowSpec plugins that call Use on the pipeline that is running them.  *)
(*   MonoSpec Register, Get and BuildPipeline called one after another.    *)
(*   LinSpec  BuildPipeline by one goroutine while others call Register.   *)
(*   FairSpec the registry's calls by goroutines that are scheduled fairly.*)
(*   AgainSpec  one pipeline executed on one context again and again.      *)
(*   CompSpec pipelines used as plugins of a pipeline.                     *)
(*   HttpSpec the HTTP handler answering requests over a pipeline.         *)
(*   WindowSpec  the chatbot's ContextManagerPlugin run on one context.    *)
(*   RouterSpec  the moderation example's DecisionRouterPlugin.            *)
(***************************************************************************)
EXTENDS Integers, Sequences, FiniteSets, TLC

(***************************************************************************)
(* Bounds of the model.                                                    *)
(***************************************************************************)
\* The longest plugin list a pipeline is given.
MaxPlugins == 3
\* Plugin identities are 0..MaxId.
MaxId == 1
\* The number of Execute calls made against one context.
MaxRuns == 2
\* The number of errors the caller itself adds to a context.
MaxCallerErrors == 1
\* The longest list of names given to BuildPipeline.
MaxNames == 3
\* The number of goroutines calling the registry, one call each.
NumProcs == 3
\* The number of contexts one pipeline is executed against concurrently.
NumCtx == 2
\* The number of chat messages the server is sent.
MaxMsgs == 3
\* The longest plugin list that calls of Use by running plugins make.
MaxGrown == 8

(***************************************************************************)
(* ErrorStrategy (iota constants).                                         *)
(***************************************************************************)
AbortOnError == 0
ContinueOnError == 1
ErrorStrategy == {AbortOnError, ContinueOnError}

\* Go's nil (a nil error, a nil Plugin).
Nil == [kind |-> "nil"]

(***************************************************************************)
(* Context.                                                                *)
(* A map[string]any is a function whose domain is the set of keys present. *)
(***************************************************************************)
EmptyMap == [k \in {} |-> Nil]

MapSet(m, key, value) ==
    [k \in (DOMAIN m) \cup {key} |-> IF k = key THEN value ELSE m[k]]

NewContext(data) ==
    [Data |-> data, Metadata |-> EmptyMap, Errors |-> <<>>, state |-> EmptyMap]

\* Mutant: the entry is written to the state map as well.
Set_Both(c, key, value) ==
    [c EXCEPT !.Metadata = MapSet(c.Metadata, key, value),
              !.state = MapSet(c.state, key, value)]

Set(c, key, value) == [c EXCEPT !.Metadata = MapSet(c.Metadata, key, value)]

\* Get returns (value, exists); value is nil when the key is absent.
Get(c, key) ==
    IF key \in DOMAIN c.Metadata
    THEN [value |-> c.Metadata[key], exists |-> TRUE]
    ELSE [value |-> Nil, exists |-> FALSE]

SetData(c, data) == [c EXCEPT !.Data = data]

GetData(c) == c.Data

\* Mutant: the state map is replaced by one holding only the new entry.
SetState_Replace(c, key, value) == [c EXCEPT !.state = [k \in {key} |-> value]]

SetState(c, key, value) == [c EXCEPT !.state = MapSet(c.state, key, value)]

GetState(c, key) ==
    IF key \in DOMAIN c.state
    THEN [value |-> c.state[key], exists |-> TRUE]
    ELSE [value |-> Nil, exists |-> FALSE]

\* Mutant: the error is put at the front of the sequence.
AddError_Prepend(c, err) == [c EXCEPT !.Errors = <<err>> \o c.Errors]

AddError(c, err) == [c EXCEPT !.Errors = Append(c.Errors, err)]

(***************************************************************************)
(* Plugins.  The core only knows the interface; the plugins installed here *)
(* are the side-effect plugins of the testable properties: plugin `id`     *)
(* appends id to the metadata list "trace", counts itself in the state     *)
(* map, replaces the data, and then returns its failure when it is a *)
(* failing plugin.  All writes come before the failure.                    *)
(***************************************************************************)
PluginIds == 0..MaxId

Plugins == [id : PluginIds, fails : BOOLEAN]

PluginFailure(pl) == [kind |-> "PluginFailure", msg |-> <<"boom", pl.id>>]

TraceOf(c) == IF Get(c, "trace").exists THEN Get(c, "trace").value ELSE <<>>

CountOf(c) == IF GetState(c, "count").exists THEN GetState(c, "count").value ELSE 0

PluginExecute(pl, c) ==
    LET c1 == Set(c, "trace", Append(TraceOf(c), pl.id))
        c2 == SetState(c1, "count", CountOf(c1) + 1)
        c3 == SetData(c2, <<"plugin", pl.id>>)
    IN  [ctx |-> c3, err |-> IF pl.fails THEN PluginFailure(pl) ELSE Nil]

(***************************************************************************)
(* PipelineError.                                                          *)
(***************************************************************************)
PipelineError(index, err) ==
    [kind |-> "PipelineError", PluginIndex |-> index, Err |-> err]

\* The text of an error value (%v): a PipelineError formats itself with
\* Error, which formats its cause the same way; any other failure is its text.
RECURSIVE ErrorText(_)
ErrorText(err) ==
    IF err.kind = "PipelineError"
    THEN <<"plugin ", err.PluginIndex, " failed: ", ErrorText(err.Err)>>
    ELSE err.msg

Error(e) == ErrorText(e)

Unwrap(e) == e.Err

(***************************************************************************)
(* Pipeline.                                                               *)
(***************************************************************************)
NewPipeline(strategy) == [plugins |-> <<>>, errorStrategy |-> strategy]

\* Mutant: the plugin is put at the front of the list.
Use_Prepend(pipe, plugin) == [pipe EXCEPT !.plugins = <<plugin>> \o pipe.plugins]

\* Mutant: the plugin takes the place of the last one.
Use_Overwrite(pipe, plugin) ==
    [pipe EXCEPT !.plugins =
        IF pipe.plugins = <<>>
        THEN <<plugin>>
        ELSE SubSeq(pipe.plugins, 1, Len(pipe.plugins) - 1) \o <<plugin>>]

Use(pipe, plugin) == [pipe EXCEPT !.plugins = Append(pipe.plugins, plugin)]

\* The frame of one Execute call: rng is the slice the range loop iterates
\* (evaluated once, when the loop starts), i the zero-based index of the next
\* iteration, ret the value returned once pc = "done".
IdleCall == [pc |-> "idle", rng |-> <<>>, i |-> 0, ret |-> Nil]

ExecuteEnter(pipe) == [pc |-> "loop", rng |-> pipe.plugins, i |-> 0, ret |-> Nil]

\* Mutant: the failure is recorded and the loop goes on under both strategies.
HandleResult_NeverAbort(strategy, f, c, err) ==
    IF err # Nil
    THEN [call |-> [f EXCEPT !.i = f.i + 1],
          ctx |-> AddError(c, PipelineError(f.i, err))]
    ELSE [call |-> [f EXCEPT !.i = f.i + 1], ctx |-> c]

\* Mutant: the loop stops at the first failure under both strategies.
HandleResult_AlwaysAbort(strategy, f, c, err) ==
    IF err # Nil
    THEN [call |-> [f EXCEPT !.pc = "done", !.ret = PipelineError(f.i, err)],
          ctx |-> c]
    ELSE [call |-> [f EXCEPT !.i = f.i + 1], ctx |-> c]

\* Mutant: the stage index is recorded one-based.
HandleResult_OneBased(strategy, f, c, err) ==
    IF err # Nil
    THEN IF strategy = AbortOnError
         THEN [call |-> [f EXCEPT !.pc = "done",
                                  !.ret = PipelineError(f.i + 1, err)],
               ctx |-> c]
         ELSE [call |-> [f EXCEPT !.i = f.i + 1],
               ctx |-> AddError(c, PipelineError(f.i + 1, err))]
    ELSE [call |-> [f EXCEPT !.i = f.i + 1], ctx |-> c]

\* Mutant: the strategy test is the wrong way round.
HandleResult_Inverted(strategy, f, c, err) ==
    IF err # Nil
    THEN IF strategy # AbortOnError
         THEN [call |-> [f EXCEPT !.pc = "done",
                                  !.ret = PipelineError(f.i, err)],
               ctx |-> c]
         ELSE [call |-> [f EXCEPT !.i = f.i + 1],
               ctx |-> AddError(c, PipelineError(f.i, err))]
    ELSE [call |-> [f EXCEPT !.i = f.i + 1], ctx |-> c]

\* Mutant: an aborting call also records the failure in the context.
HandleResult_AbortRecords(strategy, f, c, err) ==
    IF err # Nil
    THEN IF strategy = AbortOnError
         THEN [call |-> [f EXCEPT !.pc = "done",
                                  !.ret = PipelineError(f.i, err)],
               ctx |-> AddError(c, PipelineError(f.i, err))]
         ELSE [call |-> [f EXCEPT !.i = f.i + 1],
               ctx |-> AddError(c, PipelineError(f.i, err))]
    ELSE [call |-> [f EXCEPT !.i = f.i + 1], ctx |-> c]

\* The loop body after the plugin has returned err with the context as c.
\* Mutant: a failure that the context already holds is not recorded again.
HandleResult_OncePerFailure(strategy, f, c, err) ==
    IF err # Nil
    THEN IF strategy = AbortOnError
         THEN [call |-> [f EXCEPT !.pc = "done",
                                  !.ret = PipelineError(f.i, err)],
               ctx |-> c]
         ELSE [call |-> [f EXCEPT !.i = f.i + 1],
               ctx |-> IF \E j \in 1..Len(c.Errors) :
                               c.Errors[j] = PipelineError(f.i, err)
                       THEN c
                       ELSE AddError(c, PipelineError(f.i, err))]
    ELSE [call |-> [f EXCEPT !.i = f.i + 1], ctx |-> c]

HandleResult(strategy, f, c, err) ==
    IF err # Nil
    THEN IF strategy = AbortOnError
         THEN [call |-> [f EXCEPT !.pc = "done",
                                  !.ret = PipelineError(f.i, err)],
               ctx |-> c]
         ELSE [call |-> [f EXCEPT !.i = f.i + 1],
               ctx |-> AddError(c, PipelineError(f.i, err))]
    ELSE [call |-> [f EXCEPT !.i = f.i + 1], ctx |-> c]

\* Mutant: what a failing plugin wrote is rolled back.
ExecuteIteration_Rollback(strategy, f, c) ==
    LET r == PluginExecute(f.rng[f.i + 1], c)
    IN  HandleResult(strategy, f, IF r.err # Nil THEN c ELSE r.ctx, r.err)

\* Mutant: a plugin whose identity is already in the context's trace is taken
\* to have run and is skipped.
ExecuteIteration_OncePerContext(strategy, f, c) ==
    LET pl == f.rng[f.i + 1]
        seen == IF "trace" \in DOMAIN c.Metadata
                THEN {c.Metadata["trace"][j] : j \in 1..Len(c.Metadata["trace"])}
                ELSE {}
        r == PluginExecute(pl, c)
    IN  IF pl.id \in seen
        THEN [call |-> [f EXCEPT !.i = f.i + 1], ctx |-> c]
        ELSE HandleResult(strategy, f, r.ctx, r.err)

\* One iteration of the loop: run plugin i, then handle what it returned.
ExecuteIteration(strategy, f, c) ==
    LET r == PluginExecute(f.rng[f.i + 1], c)
    IN  HandleResult(strategy, f, r.ctx, r.err)

\* Mutant: a pipeline with no plugins is an error.
ExecuteExit_EmptyFails(f) ==
    [f EXCEPT !.pc = "done",
              !.ret = IF f.rng = <<>>
                      THEN [kind |-> "errorString", msg |-> <<"no plugins">>]
                      ELSE Nil]

\* The loop has run off the end of the slice: return nil.
ExecuteExit(f) == [f EXCEPT !.pc = "done", !.ret = Nil]

(***************************************************************************)
(* Registry.                                                               *)
(***************************************************************************)
Names == {"a", "b"}

ErrDuplicate(name) ==
    [kind |-> "errorString", msg |-> <<"plugin ", name, " is already registered">>]

ErrNotFound(name) ==
    [kind |-> "errorString", msg |-> <<"plugin ", name, " not found in registry">>]

NewRegistry == [plugins |-> EmptyMap]

\* Mutant: a duplicate is reported but the new plugin replaces the old one.
Register_Overwrite(reg, name, plugin) ==
    [reg |-> [reg EXCEPT !.plugins = MapSet(reg.plugins, name, plugin)],
     err |-> IF name \in DOMAIN reg.plugins THEN ErrDuplicate(name) ELSE Nil]

\* Mutant: a new name is stored in a map made anew, without the others.
Register_Fresh(reg, name, plugin) ==
    IF name \in DOMAIN reg.plugins
    THEN [reg |-> reg, err |-> ErrDuplicate(name)]
    ELSE [reg |-> [reg EXCEPT !.plugins = [k \in {name} |-> plugin]],
          err |-> Nil]

\* Register under the write lock: the registry afterwards and the error returned.
Register(reg, name, plugin) ==
    IF name \in DOMAIN reg.plugins
    THEN [reg |-> reg, err |-> ErrDuplicate(name)]
    ELSE [reg |-> [reg EXCEPT !.plugins = MapSet(reg.plugins, name, plugin)],
          err |-> Nil]

\* Mutant: the exists flag is not looked at; a missing key reads as nil.
RegistryGet_NoCheck(reg, name) ==
    [plugin |-> IF name \in DOMAIN reg.plugins THEN reg.plugins[name] ELSE Nil,
     err |-> Nil]

\* Get under the read lock: the plugin and the error returned.
RegistryGet(reg, name) ==
    IF name \notin DOMAIN reg.plugins
    THEN [plugin |-> Nil, err |-> ErrNotFound(name)]
    ELSE [plugin |-> reg.plugins[name], err |-> Nil]

(***************************************************************************)
(* The registry's sync.RWMutex: writer is the goroutine holding the write  *)
(* lock (0: none), pending the goroutine whose Lock has been announced and *)
(* waits for the readers to leave (0: none), readers the goroutines        *)
(* holding a read lock.  An announced or held write lock blocks RLock.     *)
(***************************************************************************)
NewMutex == [writer |-> 0, pending |-> 0, readers |-> {}]

\* Mutant: RLock does not wait for a writer.
CanRLock_Always(m) == TRUE

CanRLock(m) == m.writer = 0 /\ m.pending = 0

RLock(m, g) == [m EXCEPT !.readers = @ \cup {g}]

RUnlock(m, g) == [m EXCEPT !.readers = @ \ {g}]

\* Mutant: Lock does not wait for another writer.
CanLock_Always(m) == TRUE

\* Lock can get past the other writers.
CanLock(m) == m.writer = 0 /\ m.pending = 0

\* Lock announces itself to the readers, and holds the lock when there are none.
LockAnnounce(m, g) ==
    IF m.readers = {}
    THEN [m EXCEPT !.writer = g]
    ELSE [m EXCEPT !.pending = g]

\* The last reader has left: the announced Lock holds the lock.
LockAcquire(m, g) == [m EXCEPT !.writer = g, !.pending = 0]

\* Mutant: Unlock leaves the lock held.
Unlock_Keep(m) == m

Unlock(m) == [m EXCEPT !.writer = 0]

\* fmt.Errorf("failed to build pipeline: %w", err): the text, and the cause
\* kept for Unwrap.
ErrBuild(err) ==
    [kind |-> "wrapError",
     msg |-> <<"failed to build pipeline: ", err.msg>>,
     Err |-> err]

\* The loop of BuildPipeline from the k-th name on, with the pipeline built so
\* far; looked lists the names passed to Get.
RECURSIVE BuildLoop(_, _, _, _, _)
BuildLoop(reg, names, k, pipe, looked) ==
    IF k > Len(names)
    THEN [pipeline |-> pipe, err |-> Nil, looked |-> looked]
    ELSE LET got == RegistryGet(reg, names[k])
         IN  IF got.err # Nil
             THEN [pipeline |-> Nil, err |-> ErrBuild(got.err),
                   looked |-> Append(looked, names[k])]
             ELSE BuildLoop(reg, names, k + 1, Use(pipe, got.plugin),
                            Append(looked, names[k]))

\* Mutant: a name that is not found is skipped and the build goes on.
BuildPipeline_SkipMissing(reg, names, strategy) ==
    LET found == SelectSeq(names, LAMBDA n : n \in DOMAIN reg.plugins)
        res == BuildLoop(reg, found, 1, NewPipeline(strategy), <<>>)
    IN  [res EXCEPT !.looked = names]

\* Mutant: the names are resolved last to first.
BuildPipeline_Reversed(reg, names, strategy) ==
    BuildLoop(reg, [k \in 1..Len(names) |-> names[Len(names) + 1 - k]], 1,
              NewPipeline(strategy), <<>>)

\* BuildPipeline with no Register running beside it.
BuildPipeline(reg, names, strategy) ==
    BuildLoop(reg, names, 1, NewPipeline(strategy), <<>>)

(***************************************************************************)
(* The chatbot plugins.  A text is the sequence of its words, in lower     *)
(* case, and a keyword or a pattern is found in a text when it is one of   *)
(* its words.  A float is the pair <<numerator, denominator>>.  A value    *)
(* held as `any` carries its dynamic type in the field dyn.  A timestamp   *)
(* is the ordinal of the request.                                          *)
(***************************************************************************)
\* The history size NewContextManagerPlugin falls back to.
DefaultHistorySize == 10
\* The history size the server and the console example ask for.
ServerHistorySize == 10

Contains(text, keyword) == \E j \in 1..Len(text) : text[j] = keyword

Message(text, userID, sessionID, timestamp) ==
    [dyn |-> "Message", Text |-> text, UserID |-> userID,
     SessionID |-> sessionID, Timestamp |-> timestamp]

Intent(type, confidence) ==
    [dyn |-> "Intent", Type |-> type, Confidence |-> confidence]

\* The zero value of Intent.
ZeroIntent == Intent("", <<0, 1>>)

ErrExpected(type) ==
    [kind |-> "errorString", msg |-> <<"expected ", type, " type in context data">>]

NewIntentClassifierPlugin ==
    [kind |-> "IntentClassifier",
     keywords |->
        [greeting |-> <<"hello", "hi", "hey", "good morning", "good afternoon",
                        "good evening", "greetings">>,
         farewell |-> <<"bye", "goodbye", "see you", "farewell", "take care",
                        "later">>,
         question |-> <<"what", "when", "where", "who", "why", "how", "can you",
                        "could you", "would you", "?">>,
         command  |-> <<"do", "make", "create", "show", "tell", "give", "send",
                        "help">>]]

\* The number of the keywords that the text contains.
Matches(text, keywords) ==
    Cardinality({j \in 1..Len(keywords) : Contains(text, keywords[j])})

\* The intents the classifier can arrive at: the map of keywords is ranged
\* over in any order and only a strictly higher count replaces the intent, so
\* every type with the highest count can be the one that stays.
Classify(keywords, text) ==
    LET types == DOMAIN keywords
        best == {t \in types :
                    /\ Matches(text, keywords[t]) > 0
                    /\ \A u \in types :
                          Matches(text, keywords[u]) <= Matches(text, keywords[t])}
    IN  IF best = {}
        THEN IF Contains(text, "?")
             THEN {Intent("question", <<1, 2>>)}
             ELSE {Intent("unknown", <<0, 1>>)}
        ELSE {Intent(t, <<Matches(text, keywords[t]), Len(keywords[t])>>) :
                t \in best}

\* IntentClassifierPlugin.Execute: the outcomes [ctx, err] it can have.
IntentClassifierExecute(pl, c) ==
    LET msg == GetData(c)
    IN  IF msg.dyn # "Message"
        THEN {[ctx |-> c, err |-> ErrExpected("Message")]}
        ELSE {[ctx |-> Set(c, "intent", intent), err |-> Nil] :
                intent \in Classify(pl.keywords, msg.Text)}

NewEntityExtractorPlugin == [kind |-> "EntityExtractor"]

\* The words the date pattern matches.  The other patterns need digits,
\* capitals or an @, which no word of the model has.
DateWords == {"today", "tomorrow", "yesterday"}

WordLen(w) ==
    CASE w = "hello" -> 5
      [] w = "bye" -> 3
      [] w = "help" -> 4
      [] w = "today" -> 5

\* The offset of the j-th word in the text, its words a space apart.
RECURSIVE WordStart(_, _)
WordStart(text, j) ==
    IF j = 1 THEN 0 ELSE WordStart(text, j - 1) + WordLen(text[j - 1]) + 1

RECURSIVE FindAll(_, _)
FindAll(text, j) ==
    IF j > Len(text)
    THEN <<>>
    ELSE (IF text[j] \in DateWords
          THEN <<[Type |-> "date", Value |-> text[j],
                  Start |-> WordStart(text, j),
                  End |-> WordStart(text, j) + WordLen(text[j])]>>
          ELSE <<>>) \o FindAll(text, j + 1)

EntityExtractorExecute(pl, c) ==
    LET msg == GetData(c)
    IN  IF msg.dyn # "Message"
        THEN {[ctx |-> c, err |-> ErrExpected("Message")]}
        ELSE {[ctx |-> Set(c, "entities", FindAll(msg.Text, 1)), err |-> Nil]}

NewContextManagerPlugin(maxHistorySize) ==
    [kind |-> "ContextManager",
     maxHistorySize |-> IF maxHistorySize <= 0
                        THEN DefaultHistorySize
                        ELSE maxHistorySize]

ConversationState(history, userPrefs, lastIntent) ==
    [dyn |-> "ConversationState", History |-> history,
     UserPrefs |-> userPrefs, LastIntent |-> lastIntent]

\* The key of a session's conversation in the state map.
ConversationKey(sessionID) == <<"conversation:", sessionID>>

\* Mutant: the first n elements are kept.
LastN_First(seq, n) == SubSeq(seq, 1, n)

\* The last n elements of a sequence of more than n.
LastN(seq, n) == SubSeq(seq, Len(seq) - n + 1, Len(seq))

\* ContextManagerPlugin.Execute: the conversation is read from the state of
\* the context it is given, the message is appended, the history is cut to
\* its last maxHistorySize messages and the conversation is written back to
\* the state and to the metadata of that context.
ContextManagerExecute(pl, c) ==
    LET msg == GetData(c)
        stateKey == ConversationKey(msg.SessionID)
        stateData == GetState(c, stateKey)
        convState ==
            IF stateData.exists /\ stateData.value.dyn = "ConversationState"
            THEN stateData.value
            ELSE ConversationState(<<>>, EmptyMap, ZeroIntent)
        appended == Append(convState.History, msg)
        history == IF Len(appended) > pl.maxHistorySize
                   THEN LastN(appended, pl.maxHistorySize)
                   ELSE appended
        intentData == Get(c, "intent")
        lastIntent ==
            IF intentData.exists /\ intentData.value.dyn = "Intent"
            THEN intentData.value
            ELSE convState.LastIntent
        updated == ConversationState(history, convState.UserPrefs, lastIntent)
    IN  IF msg.dyn # "Message"
        THEN {[ctx |-> c, err |-> ErrExpected("Message")]}
        ELSE {[ctx |-> Set(SetState(c, stateKey, updated),
                           "conversation_state", updated),
               err |-> Nil]}

\* The first template of each intent type.
NewResponseGeneratorPlugin ==
    [kind |-> "ResponseGenerator",
     templates |->
        [greeting |-> "Hello! How can I help you today?",
         farewell |-> "Goodbye! Have a great day!",
         question |-> "That's a great question. Let me help you with that.",
         command  |-> "I'll help you with that right away.",
         unknown  |-> "I'm not sure I understand. Could you rephrase that?"]]

\* A response text: the template, the entities mentioned after it, the number
\* of the message in the conversation when it is said (0: not said), and
\* what the personality filter puts around it.
ResponseText(body, mentions, number) ==
    [prefix |-> "", body |-> body, mentions |-> mentions, number |-> number,
     emoji |-> "", suffix |-> ""]

Response(text, intent, entities, timestamp) ==
    [dyn |-> "Response", Text |-> text, Intent |-> intent,
     Entities |-> entities, Timestamp |-> timestamp]

ResponseGeneratorExecute(pl, c) ==
    LET intentData == Get(c, "intent")
        intent == IF intentData.exists /\ intentData.value.dyn = "Intent"
                  THEN intentData.value
                  ELSE Intent("unknown", <<0, 1>>)
        entitiesData == Get(c, "entities")
        entities == IF entitiesData.exists THEN entitiesData.value ELSE <<>>
        template == IF intent.Type \in DOMAIN pl.templates
                    THEN pl.templates[intent.Type]
                    ELSE pl.templates["unknown"]
        mentions == [j \in 1..Len(entities) |->
                        <<entities[j].Value, entities[j].Type>>]
        convStateData == Get(c, "conversation_state")
        number == IF /\ convStateData.exists
                     /\ convStateData.value.dyn = "ConversationState"
                     /\ Len(convStateData.value.History) > 1
                  THEN Len(convStateData.value.History)
                  ELSE 0
        response == Response(ResponseText(template, mentions, number), intent,
                             entities, GetData(c).Timestamp)
    IN  {[ctx |-> SetData(c, response), err |-> Nil]}

PersonalityConfig(name, emojis, casual, enthusiastic) ==
    [Name |-> name, Emojis |-> emojis, Casual |-> casual,
     Enthusiastic |-> enthusiastic, Prefix |-> "", Suffix |-> ""]

NewPersonalityFilterPlugin(config) ==
    [kind |-> "PersonalityFilter", config |-> config]

\* "Hello!" becomes "Hey!" and "Goodbye!" becomes "Bye!"; no template has
\* "I will" or "I am".
Casual(body) ==
    CASE body = "Hello! How can I help you today?" ->
            "Hey! How can I help you today?"
      [] body = "Goodbye! Have a great day!" -> "Bye! Have a great day!"
      [] OTHER -> body

\* Every "." becomes "!".
Enthusiastic(body) ==
    CASE body = "That's a great question. Let me help you with that." ->
            "That's a great question! Let me help you with that!"
      [] body = "I'll help you with that right away." ->
            "I'll help you with that right away!"
      [] body = "I'm not sure I understand. Could you rephrase that?" ->
            "I'm not sure I understand! Could you rephrase that?"
      [] OTHER -> body

Emoji(intentType) ==
    CASE intentType \in {"greeting", "farewell"} -> "wave"
      [] intentType = "question" -> "thinking"
      [] intentType = "command" -> "check"
      [] OTHER -> ""

PersonalityFilterExecute(pl, c) ==
    LET response == GetData(c)
        t0 == response.Text
        t1 == [t0 EXCEPT !.prefix = pl.config.Prefix]
        t2 == IF pl.config.Casual
              THEN [t1 EXCEPT !.body = Casual(t1.body)] ELSE t1
        t3 == IF pl.config.Enthusiastic
              THEN [t2 EXCEPT !.body = Enthusiastic(t2.body)] ELSE t2
        t4 == IF pl.config.Emojis
              THEN [t3 EXCEPT !.emoji = Emoji(response.Intent.Type)] ELSE t3
        t5 == [t4 EXCEPT !.suffix = pl.config.Suffix]
    IN  IF response.dyn # "Response"
        THEN {[ctx |-> c, err |-> ErrExpected("Response")]}
        ELSE {[ctx |-> SetData(c, [response EXCEPT !.Text = t5]), err |-> Nil]}

\* plugin.Execute(ctx) for the plugins of the chatbot.
ChatExecute(pl, c) ==
    CASE pl.kind = "IntentClassifier" -> IntentClassifierExecute(pl, c)
      [] pl.kind = "EntityExtractor" -> EntityExtractorExecute(pl, c)
      [] pl.kind = "ContextManager" -> ContextManagerExecute(pl, c)
      [] pl.kind = "ResponseGenerator" -> ResponseGeneratorExecute(pl, c)
      [] pl.kind = "PersonalityFilter" -> PersonalityFilterExecute(pl, c)

\* The pipeline NewChatBotServer puts together.
ChatPipeline ==
    Use(Use(Use(Use(Use(NewPipeline(AbortOnError),
        NewIntentClassifierPlugin),
        NewEntityExtractorPlugin),
        NewContextManagerPlugin(ServerHistorySize)),
        NewResponseGeneratorPlugin),
        NewPersonalityFilterPlugin(
            PersonalityConfig("Friendly Bot", TRUE, TRUE, FALSE)))

(***************************************************************************)
(* State.                                                                  *)
(***************************************************************************)
VARIABLES
    p,        \* the pipeline: [plugins, errorStrategy]
    ctx,      \* the context: [Data, Metadata, Errors, state]
    call,     \* the frame of the Execute call on (p, ctx)
    ran,      \* history: the indices of the plugins the current call has run
              \*   (empty when no call is under way or finished)
    ctx0,     \* history: the context as it was when the current call began
              \*   (the context itself when no call is under way or finished)
    runs,     \* the number of Execute calls begun on ctx
    used,     \* history: the plugins passed to Use, in call order
    r,        \* the registry: [plugins]
    last,     \* history: the last registry call, its arguments and results
    bound,    \* history: the [name, plugin] of every Register that returned nil
    mu,       \* the registry's RWMutex
    gs,       \* the goroutines calling the registry: each one's position in its
              \*   call, the call's arguments and results
    cs,       \* the contexts p is executed against concurrently
    fs,       \* the frame of the Execute call on each of them
    mixed,    \* history: the contexts whose call took a step while another
              \*   call was in its loop
    sent      \* history: the chat messages handled so far, per session

vars == <<p, ctx, call, ran, ctx0, runs, used, r, last, bound, mu, gs, cs, fs, mixed, sent>>

pipeVars == <<p, ctx, call, ran, ctx0, runs, used>>

regVars == <<r, last, bound>>

lockVars == <<mu, gs>>

\* The variables of the other specifications than Spec, RegSpec and BuildSpec.
concVars == <<cs, fs, mixed>>

\* The variables of ChatSpec alone.
chatVars == <<sent>>

extVars == <<lockVars, concVars, chatVars>>

Ctxs == 1..NumCtx

\* The sessions of the chat: the one a request names and the one a request
\* that names none is put in.
Sessions == {"s1", "default-session"}

Procs == 1..NumProcs

\* A goroutine that has not called the registry yet.
IdleProc ==
    [pc |-> "idle", op |-> "none", name |-> "", plugin |-> Nil, err |-> Nil,
     exists |-> FALSE, seen |-> {}]

\* The plugin goroutine g registers: every goroutine has one of its own.
PluginOf(g) == [id |-> g, fails |-> FALSE]

DataValues == {<<"init", 0>>, <<"init", 1>>}

\* An error of the caller's own.
CallerError == [kind |-> "errorString", msg |-> <<"caller">>]

NoCall == [op |-> "none"]

Init ==
    /\ \E strategy \in ErrorStrategy : p = NewPipeline(strategy)
    /\ \E data \in DataValues : ctx = NewContext(data)
    /\ call = IdleCall
    /\ ran = <<>>
    /\ ctx0 = ctx
    /\ runs = 0
    /\ used = <<>>
    /\ r = NewRegistry
    /\ last = NoCall
    /\ bound = {}
    /\ mu = NewMutex
    /\ gs = [g \in Procs |-> IdleProc]
    /\ cs = [c \in Ctxs |-> NewContext(<<"init", c>>)]
    /\ fs = [c \in Ctxs |-> IdleCall]
    /\ mixed = {}
    /\ sent = [s \in Sessions |-> <<>>]

(***************************************************************************)
(* Actions of Spec.                                                        *)
(***************************************************************************)
\* p.Use(plugin), never while an Execute call is in flight.
CallUse ==
    /\ call.pc # "loop"
    /\ Len(p.plugins) < MaxPlugins
    /\ \E plugin \in Plugins :
          /\ p' = Use(p, plugin)
          /\ used' = Append(used, plugin)
    /\ call' = IdleCall
    /\ ran' = <<>>
    /\ ctx0' = ctx
    /\ UNCHANGED <<ctx, runs, regVars, extVars>>

\* ctx = NewContext(data): the caller starts over with a fresh context.
CallNewContext ==
    /\ call.pc # "loop"
    /\ \E data \in DataValues : ctx' = NewContext(data)
    /\ call' = IdleCall
    /\ ran' = <<>>
    /\ ctx0' = ctx'
    /\ runs' = 0
    /\ UNCHANGED <<p, used, regVars, extVars>>

\* ctx.AddError(err) by the caller, between Execute calls.
CallAddError ==
    /\ call.pc # "loop"
    /\ Len(ctx.Errors) < MaxCallerErrors
    /\ ctx' = AddError(ctx, CallerError)
    /\ call' = IdleCall
    /\ ran' = <<>>
    /\ ctx0' = ctx'
    /\ UNCHANGED <<p, runs, used, regVars, extVars>>

\* p.Execute(ctx) is called: the range expression is evaluated.
ExecuteBegin ==
    /\ call.pc # "loop"
    /\ runs < MaxRuns
    /\ call' = ExecuteEnter(p)
    /\ ran' = <<>>
    /\ ctx0' = ctx
    /\ runs' = runs + 1
    /\ UNCHANGED <<p, ctx, used, regVars, extVars>>

\* One loop iteration of Execute.
ExecuteLoop ==
    /\ call.pc = "loop"
    /\ call.i < Len(call.rng)
    /\ LET res == ExecuteIteration(p.errorStrategy, call, ctx)
       IN  /\ call' = res.call
           /\ ctx' = res.ctx
    /\ ran' = Append(ran, call.i)
    /\ UNCHANGED <<p, ctx0, runs, used, regVars, extVars>>

\* The loop is over: Execute returns nil.
ExecuteReturn ==
    /\ call.pc = "loop"
    /\ call.i >= Len(call.rng)
    /\ call' = ExecuteExit(call)
    /\ UNCHANGED <<p, ctx, ran, ctx0, runs, used, regVars, extVars>>

Next ==
    \/ CallUse
    \/ CallNewContext
    \/ CallAddError
    \/ ExecuteBegin
    \/ ExecuteLoop
    \/ ExecuteReturn

Spec == Init /\ [][Next]_vars

(***************************************************************************)
(* Actions of RegSpec.                                                     *)
(***************************************************************************)
\* r.Register(name, plugin).
CallRegister ==
    \E name \in Names, plugin \in Plugins :
        LET res == Register(r, name, plugin)
        IN  /\ r' = res.reg
            /\ last' = [op |-> "Register", name |-> name, plugin |-> plugin,
                        err |-> res.err, before |-> r]
            /\ bound' = IF res.err = Nil
                        THEN bound \cup {[name |-> name, plugin |-> plugin]}
                        ELSE bound
            /\ UNCHANGED <<pipeVars, extVars>>

\* r.Get(name).
CallGet ==
    \E name \in Names :
        LET res == RegistryGet(r, name)
        IN  /\ last' = [op |-> "Get", name |-> name, plugin |-> res.plugin,
                        err |-> res.err, before |-> r]
            /\ UNCHANGED <<r, bound, pipeVars, extVars>>

RegNext ==
    \/ CallRegister
    \/ CallGet

RegSpec == Init /\ [][RegNext]_vars

(***************************************************************************)
(* Actions of BuildSpec: the registry is populated, one pipeline is built  *)
(* from it by name, and the pipeline is executed.                          *)
(***************************************************************************)
NameSeqs == UNION {[1..n -> Names] : n \in 0..MaxNames}

\* r.Register(name, plugin) while the registry is being populated.
BuildRegister ==
    /\ last.op # "BuildPipeline"
    /\ CallRegister

\* pipeline, err := r.BuildPipeline(names, strategy); the caller keeps the
\* pipeline when there is one.
CallBuildPipeline ==
    /\ last.op # "BuildPipeline"
    /\ call.pc # "loop"
    /\ \E names \in NameSeqs, strategy \in ErrorStrategy :
          LET res == BuildPipeline(r, names, strategy)
          IN  /\ last' = [op |-> "BuildPipeline", names |-> names,
                          strategy |-> strategy, pipeline |-> res.pipeline,
                          err |-> res.err, looked |-> res.looked,
                          before |-> r, held |-> p]
              /\ p' = IF res.err = Nil THEN res.pipeline ELSE p
              /\ used' = IF res.err = Nil THEN res.pipeline.plugins ELSE used
    /\ call' = IdleCall
    /\ ran' = <<>>
    /\ ctx0' = ctx
    /\ UNCHANGED <<ctx, runs, r, bound, extVars>>

BuildNext ==
    \/ BuildRegister
    \/ CallBuildPipeline
    \/ ExecuteBegin
    \/ ExecuteLoop
    \/ ExecuteReturn

BuildSpec == Init /\ [][BuildNext]_vars

(***************************************************************************)
(* Actions of LockSpec: goroutines call Register and Get on one registry,  *)
(* each call stepped through its lock operations.                          *)
(***************************************************************************)
\* Goroutine g calls r.Register(name, PluginOf(g)).
LRegCall(g) ==
    /\ gs[g].pc = "idle"
    /\ \E name \in Names :
          gs' = [gs EXCEPT ![g] = [IdleProc EXCEPT !.pc = "lock", !.op = "Register",
                                                   !.name = name,
                                                   !.plugin = PluginOf(g)]]
    /\ UNCHANGED <<mu, r, bound, last, pipeVars, concVars, chatVars>>

\* r.mu.Lock(): past the other writers.
LRegLock(g) ==
    /\ gs[g].pc = "lock"
    /\ CanLock(mu)
    /\ mu' = LockAnnounce(mu, g)
    /\ gs' = [gs EXCEPT ![g].pc = IF mu.readers = {} THEN "check" ELSE "drain"]
    /\ UNCHANGED <<r, bound, last, pipeVars, concVars, chatVars>>

\* r.mu.Lock(): the readers have left.
LRegDrain(g) ==
    /\ gs[g].pc = "drain"
    /\ mu.readers = {}
    /\ mu' = LockAcquire(mu, g)
    /\ gs' = [gs EXCEPT ![g].pc = "check"]
    /\ UNCHANGED <<r, bound, last, pipeVars, concVars, chatVars>>

\* _, exists := r.plugins[name]
LRegCheck(g) ==
    /\ gs[g].pc = "check"
    /\ gs' = [gs EXCEPT ![g].exists = gs[g].name \in DOMAIN r.plugins,
                        ![g].pc = "store"]
    /\ UNCHANGED <<mu, r, bound, last, pipeVars, concVars, chatVars>>

\* if exists { return error }; r.plugins[name] = plugin; return nil
LRegStore(g) ==
    /\ gs[g].pc = "store"
    /\ IF gs[g].exists
       THEN /\ gs' = [gs EXCEPT ![g].err = ErrDuplicate(gs[g].name),
                               ![g].pc = "unlock"]
            /\ r' = r
       ELSE /\ gs' = [gs EXCEPT ![g].err = Nil, ![g].pc = "unlock"]
            /\ r' = [r EXCEPT !.plugins = MapSet(r.plugins, gs[g].name, gs[g].plugin)]
    /\ UNCHANGED <<mu, bound, last, pipeVars, concVars, chatVars>>

\* The deferred r.mu.Unlock(); Register returns.
LRegUnlock(g) ==
    /\ gs[g].pc = "unlock"
    /\ mu' = Unlock(mu)
    /\ gs' = [gs EXCEPT ![g].pc = "done"]
    /\ bound' = IF gs[g].err = Nil
                THEN bound \cup {[name |-> gs[g].name, plugin |-> gs[g].plugin]}
                ELSE bound
    /\ UNCHANGED <<r, last, pipeVars, concVars, chatVars>>

\* Goroutine g calls r.Get(name); seen are the bindings of name whose Register
\* has already returned.
LGetCall(g) ==
    /\ gs[g].pc = "idle"
    /\ \E name \in Names :
          gs' = [gs EXCEPT ![g] = [IdleProc EXCEPT !.pc = "rlock", !.op = "Get",
                                                   !.name = name,
                                                   !.seen = {b \in bound : b.name = name}]]
    /\ UNCHANGED <<mu, r, bound, last, pipeVars, concVars, chatVars>>

\* r.mu.RLock()
LGetRLock(g) ==
    /\ gs[g].pc = "rlock"
    /\ CanRLock(mu)
    /\ mu' = RLock(mu, g)
    /\ gs' = [gs EXCEPT ![g].pc = "read"]
    /\ UNCHANGED <<r, bound, last, pipeVars, concVars, chatVars>>

\* plugin, exists := r.plugins[name]; the result is chosen.
LGetRead(g) ==
    /\ gs[g].pc = "read"
    /\ LET res == RegistryGet(r, gs[g].name)
       IN  gs' = [gs EXCEPT ![g].plugin = res.plugin, ![g].err = res.err,
                            ![g].pc = "runlock"]
    /\ UNCHANGED <<mu, r, bound, last, pipeVars, concVars, chatVars>>

\* The deferred r.mu.RUnlock(); Get returns.
LGetRUnlock(g) ==
    /\ gs[g].pc = "runlock"
    /\ mu' = RUnlock(mu, g)
    /\ gs' = [gs EXCEPT ![g].pc = "done"]
    /\ UNCHANGED <<r, bound, last, pipeVars, concVars, chatVars>>

LockNext ==
    \E g \in Procs :
        \/ LRegCall(g)
        \/ LRegLock(g)
        \/ LRegDrain(g)
        \/ LRegCheck(g)
        \/ LRegStore(g)
        \/ LRegUnlock(g)
        \/ LGetCall(g)
        \/ LGetRLock(g)
        \/ LGetRead(g)
        \/ LGetRUnlock(g)

LockSpec == Init /\ [][LockNext]_vars

(***************************************************************************)
(* Actions of ConcSpec: one pipeline, built by Use before any call, is     *)
(* executed once against each of several contexts, the calls interleaved   *)
(* loop iteration by loop iteration.                                       *)
(***************************************************************************)
\* Mutant: the loop index is kept in one place for all the calls under way.
LoopIndex_Shared(frames, c) ==
    LET looping == {d \in DOMAIN frames : frames[d].pc = "loop"}
    IN  frames[CHOOSE d \in looping : \A e \in looping : d <= e].i

\* The loop index of the call on context c: a variable of that call.
LoopIndex(frames, c) == frames[c].i

\* The frame of the call on context c as its next loop step reads it.
FrameOf(frames, c) == [frames[c] EXCEPT !.i = LoopIndex(frames, c)]

\* p.Use(plugin) before any Execute call; the plugin's identity is its index.
ConcUse ==
    /\ \A c \in Ctxs : fs[c].pc = "idle"
    /\ Len(p.plugins) < MaxPlugins
    /\ \E fails \in BOOLEAN :
          LET plugin == [id |-> Len(p.plugins), fails |-> fails]
          IN  /\ p' = Use(p, plugin)
              /\ used' = Append(used, plugin)
    /\ UNCHANGED <<ctx, call, ran, ctx0, runs, regVars, lockVars, concVars, chatVars>>

\* p.Execute(cs[c]) is called.
ConcBegin(c) ==
    /\ fs[c].pc = "idle"
    /\ fs' = [fs EXCEPT ![c] = ExecuteEnter(p)]
    /\ UNCHANGED <<pipeVars, regVars, lockVars, cs, mixed, chatVars>>

\* One loop iteration of the call on cs[c].
ConcLoop(c) ==
    /\ fs[c].pc = "loop"
    /\ LoopIndex(fs, c) < Len(fs[c].rng)
    /\ LET res == ExecuteIteration(p.errorStrategy, FrameOf(fs, c), cs[c])
       IN  /\ fs' = [fs EXCEPT ![c] = res.call]
           /\ cs' = [cs EXCEPT ![c] = res.ctx]
    /\ mixed' = IF \E d \in Ctxs \ {c} : fs[d].pc = "loop" /\ fs[d].i >= 1
                THEN mixed \cup {c}
                ELSE mixed
    /\ UNCHANGED <<pipeVars, regVars, lockVars, chatVars>>

\* The loop of the call on cs[c] is over: Execute returns nil.
ConcReturn(c) ==
    /\ fs[c].pc = "loop"
    /\ LoopIndex(fs, c) >= Len(fs[c].rng)
    /\ fs' = [fs EXCEPT ![c] = ExecuteExit(FrameOf(fs, c))]
    /\ UNCHANGED <<pipeVars, regVars, lockVars, cs, mixed, chatVars>>

ConcNext ==
    \/ ConcUse
    \/ \E c \in Ctxs :
          \/ ConcBegin(c)
          \/ ConcLoop(c)
          \/ ConcReturn(c)

ConcSpec == Init /\ [][ConcNext]_vars

(***************************************************************************)
(* CtxSpec: one context under every Context method and under Execute, next *)
(* to a second context (cs[1]) that is written to as well.  The pipeline   *)
(* is put together before the context is first used; last records the      *)
(* Context call made last.                                                 *)
(***************************************************************************)
MetaKey == "note"
MetaValue == <<"text">>
StateKey == "flag"
StateValue == <<"on">>

\* p.Use(plugin) while setting up: the i-th plugin has identity i.
CtxUse ==
    /\ call.pc = "idle"
    /\ runs = 0
    /\ ctx = NewContext(ctx.Data)
    /\ Len(p.plugins) < MaxPlugins
    /\ \E fails \in BOOLEAN :
          LET plugin == [id |-> Len(p.plugins), fails |-> fails]
          IN  /\ p' = Use(p, plugin)
              /\ used' = Append(used, plugin)
    /\ UNCHANGED <<ctx, call, ran, ctx0, runs, regVars, extVars>>

\* ctx = NewContext(data).
CtxNewContext ==
    /\ call.pc # "loop"
    /\ \E data \in DataValues :
          /\ ctx' = NewContext(data)
          /\ last' = [op |-> "NewContext", data |-> data]
    /\ call' = IdleCall
    /\ ran' = <<>>
    /\ ctx0' = ctx'
    /\ runs' = 0
    /\ UNCHANGED <<p, used, r, bound, extVars>>

\* ctx.Set(key, value) by the caller.
CtxSet ==
    /\ call.pc # "loop"
    /\ ctx' = Set(ctx, MetaKey, MetaValue)
    /\ last' = [op |-> "Set"]
    /\ call' = IdleCall
    /\ ran' = <<>>
    /\ ctx0' = ctx'
    /\ UNCHANGED <<p, runs, used, r, bound, extVars>>

\* ctx.SetData(data) by the caller.
CtxSetData ==
    /\ call.pc # "loop"
    /\ \E data \in DataValues : ctx' = SetData(ctx, data)
    /\ last' = [op |-> "SetData"]
    /\ call' = IdleCall
    /\ ran' = <<>>
    /\ ctx0' = ctx'
    /\ UNCHANGED <<p, runs, used, r, bound, extVars>>

\* ctx.SetState(key, value) by the caller.
CtxSetState ==
    /\ call.pc # "loop"
    /\ ctx' = SetState(ctx, StateKey, StateValue)
    /\ last' = [op |-> "SetState"]
    /\ call' = IdleCall
    /\ ran' = <<>>
    /\ ctx0' = ctx'
    /\ UNCHANGED <<p, runs, used, r, bound, extVars>>

\* ctx.AddError(err) by the caller.
CtxAddError ==
    /\ call.pc # "loop"
    /\ Len(ctx.Errors) < MaxCallerErrors
    /\ ctx' = AddError(ctx, CallerError)
    /\ last' = [op |-> "AddError"]
    /\ call' = IdleCall
    /\ ran' = <<>>
    /\ ctx0' = ctx'
    /\ UNCHANGED <<p, runs, used, r, bound, extVars>>

\* A write to the state and the metadata of the other context.
OtherWrite ==
    /\ StateKey \notin DOMAIN cs[1].state
    /\ cs' = [cs EXCEPT ![1] = Set(SetState(cs[1], StateKey, StateValue),
                                   MetaKey, MetaValue)]
    /\ UNCHANGED <<pipeVars, regVars, lockVars, fs, mixed, chatVars>>

CtxNext ==
    \/ CtxUse
    \/ CtxNewContext
    \/ CtxSet
    \/ CtxSetData
    \/ CtxSetState
    \/ CtxAddError
    \/ OtherWrite
    \/ ExecuteBegin
    \/ ExecuteLoop
    \/ ExecuteReturn

CtxSpec == Init /\ [][CtxNext]_vars

(***************************************************************************)
(* ChatSpec: the chatbot server.  NewChatBotServer puts the pipeline       *)
(* together; HandleChat takes one request at a time, makes the message,    *)
(* a context of its own for it, and executes the pipeline on that context, *)
(* one loop iteration a step; ChatRespond answers the request.  last is    *)
(* the request being handled or handled last, sent the messages of each    *)
(* session in the order they were handled.                                 *)
(***************************************************************************)
ChatTexts == {<<"hello">>, <<"bye">>, <<"help", "today">>}

\* The bodies of the requests: an empty text, user or session is a field
\* left out.
ChatRequests ==
    [Text : ChatTexts \cup {<<>>}, UserID : {"", "u1"}, SessionID : {"", "s1"}]

\* The number of messages handled so far.
Handled == Len(sent["s1"]) + Len(sent["default-session"])

NewChatBotServer ==
    /\ last.op = "none"
    /\ p' = ChatPipeline
    /\ last' = [op |-> "NewChatBotServer"]
    /\ UNCHANGED <<ctx, call, ran, ctx0, runs, used, r, bound, extVars>>

\* HandleChat up to the call of Execute, or to the answer to a request
\* without a text.
HandleChat ==
    /\ \/ last.op = "NewChatBotServer"
       \/ last.op = "HandleChat" /\ last.status # 0
    /\ Handled < MaxMsgs
    /\ \E req \in ChatRequests :
          IF req.Text = <<>>
          THEN /\ last' = [op |-> "HandleChat", status |-> 400, msg |-> Nil]
               /\ UNCHANGED <<ctx, call, sent>>
          ELSE LET userID == IF req.UserID = "" THEN "anonymous"
                                               ELSE req.UserID
                   sessionID == IF req.SessionID = "" THEN "default-session"
                                                     ELSE req.SessionID
                   msg == Message(req.Text, userID, sessionID, Handled + 1)
               IN  /\ ctx' = NewContext(msg)
                   /\ call' = ExecuteEnter(p)
                   /\ sent' = [sent EXCEPT ![sessionID] = Append(@, msg)]
                   /\ last' = [op |-> "HandleChat", status |-> 0, msg |-> msg]
    /\ UNCHANGED <<p, ran, ctx0, runs, used, r, bound, lockVars, concVars>>

\* One loop iteration of Execute on the message's context.
ChatLoop ==
    /\ last.op = "HandleChat"
    /\ call.pc = "loop"
    /\ call.i < Len(call.rng)
    /\ \E res \in ChatExecute(call.rng[call.i + 1], ctx) :
          LET next == HandleResult(p.errorStrategy, call, res.ctx, res.err)
          IN  /\ call' = next.call
              /\ ctx' = next.ctx
    /\ UNCHANGED <<p, ran, ctx0, runs, used, regVars, extVars>>

\* The loop is over: Execute returns nil.
ChatReturn ==
    /\ last.op = "HandleChat"
    /\ call.pc = "loop"
    /\ call.i >= Len(call.rng)
    /\ call' = ExecuteExit(call)
    /\ UNCHANGED <<p, ctx, ran, ctx0, runs, used, regVars, extVars>>

\* HandleChat after Execute: 500 for an error or for data that is no
\* Response, 200 otherwise.
ChatRespond ==
    /\ last.op = "HandleChat"
    /\ last.status = 0
    /\ call.pc = "done"
    /\ last' = [last EXCEPT !.status =
                    IF call.ret # Nil \/ GetData(ctx).dyn # "Response"
                    THEN 500 ELSE 200]
    /\ UNCHANGED <<pipeVars, r, bound, extVars>>

ChatNext ==
    \/ NewChatBotServer
    \/ HandleChat
    \/ ChatLoop
    \/ ChatReturn
    \/ ChatRespond

ChatSpec == Init /\ [][ChatNext]_vars

(***************************************************************************)
(* FrameSpec: the seven Context methods called on one context in any       *)
(* order, with keys that the metadata and the state map share.  last is    *)
(* the call made last: its arguments, what it returned and the context     *)
(* before it.                                                              *)
(***************************************************************************)
FrameKeys == {"k1", "k2"}
FrameValues == {<<"v", 0>>, <<"v", 1>>}
FrameErrors == {CallerError, [kind |-> "errorString", msg |-> <<"other">>]}

FrameCall(op, key, value, ret) ==
    [op |-> op, key |-> key, value |-> value, ret |-> ret, before |-> ctx]

FrameSet ==
    /\ \E key \in FrameKeys, value \in FrameValues :
          /\ ctx' = Set(ctx, key, value)
          /\ last' = FrameCall("Set", key, value, Nil)
    /\ UNCHANGED <<p, call, ran, ctx0, runs, used, r, bound, extVars>>

FrameGet ==
    /\ \E key \in FrameKeys :
          last' = FrameCall("Get", key, Nil, Get(ctx, key))
    /\ UNCHANGED <<pipeVars, r, bound, extVars>>

FrameSetData ==
    /\ \E data \in DataValues :
          /\ ctx' = SetData(ctx, data)
          /\ last' = FrameCall("SetData", "", data, Nil)
    /\ UNCHANGED <<p, call, ran, ctx0, runs, used, r, bound, extVars>>

FrameGetData ==
    /\ last' = FrameCall("GetData", "", Nil, GetData(ctx))
    /\ UNCHANGED <<pipeVars, r, bound, extVars>>

FrameSetState ==
    /\ \E key \in FrameKeys, value \in FrameValues :
          /\ ctx' = SetState(ctx, key, value)
          /\ last' = FrameCall("SetState", key, value, Nil)
    /\ UNCHANGED <<p, call, ran, ctx0, runs, used, r, bound, extVars>>

FrameGetState ==
    /\ \E key \in FrameKeys :
          last' = FrameCall("GetState", key, Nil, GetState(ctx, key))
    /\ UNCHANGED <<pipeVars, r, bound, extVars>>

FrameAddError ==
    /\ Len(ctx.Errors) <= MaxCallerErrors
    /\ \E err \in FrameErrors :
          /\ ctx' = AddError(ctx, err)
          /\ last' = FrameCall("AddError", "", err, Nil)
    /\ UNCHANGED <<p, call, ran, ctx0, runs, used, r, bound, extVars>>

FrameNext ==
    \/ FrameSet
    \/ FrameGet
    \/ FrameSetData
    \/ FrameGetData
    \/ FrameSetState
    \/ FrameGetState
    \/ FrameAddError

FrameSpec == Init /\ [][FrameNext]_vars

(***************************************************************************)
(* GrowSpec: a pipeline some of whose plugins call Use on it while it      *)
(* executes them.  Such a plugin holds the plugin it appends (extra); the  *)
(* range loop goes over the slice it evaluated when the call began.  last  *)
(* records the plugin list at the start of the call.                       *)
(***************************************************************************)
\* The plugin that growing plugins append: it is no growing plugin itself.
ExtraPlugin == [id |-> MaxPlugins, fails |-> FALSE]

Grows(pl) == "extra" \in DOMAIN pl

\* Mutant: the loop goes over the pipeline's list as it is now.
RangeOf_Live(pipe, f) == pipe.plugins

\* The slice the range loop goes over: the one evaluated at entry.
RangeOf(pipe, f) == f.rng

\* p.Use(plugin) while setting up.
GrowUse ==
    /\ call.pc = "idle"
    /\ runs = 0
    /\ Len(p.plugins) < MaxPlugins - 1
    /\ \E fails \in BOOLEAN, grows \in BOOLEAN :
          LET id == Len(p.plugins)
              plugin == IF grows
                        THEN [id |-> id, fails |-> fails, extra |-> ExtraPlugin]
                        ELSE [id |-> id, fails |-> fails]
          IN  /\ p' = Use(p, plugin)
              /\ used' = Append(used, plugin)
    /\ UNCHANGED <<ctx, call, ran, ctx0, runs, regVars, extVars>>

\* p.Execute(ctx) is called.
GrowBegin ==
    /\ call.pc # "loop"
    /\ runs <= MaxRuns
    /\ call' = ExecuteEnter(p)
    /\ last' = [op |-> "Execute", start |-> p.plugins]
    /\ ran' = <<>>
    /\ ctx0' = ctx
    /\ runs' = runs + 1
    /\ UNCHANGED <<p, ctx, used, r, bound, extVars>>

\* One loop iteration; a growing plugin calls p.Use(extra) in its Execute.
GrowLoop ==
    /\ call.pc = "loop"
    /\ call.i < Len(RangeOf(p, call))
    /\ LET f == [call EXCEPT !.rng = RangeOf(p, call)]
           plugin == f.rng[f.i + 1]
           res == ExecuteIteration(p.errorStrategy, f, ctx)
       IN  /\ Grows(plugin) => Len(p.plugins) < MaxGrown
           /\ p' = IF Grows(plugin) THEN Use(p, plugin.extra) ELSE p
           /\ call' = res.call
           /\ ctx' = res.ctx
    /\ ran' = Append(ran, call.i)
    /\ UNCHANGED <<ctx0, runs, used, regVars, extVars>>

\* The loop is over: Execute returns nil.
GrowReturn ==
    /\ call.pc = "loop"
    /\ call.i >= Len(RangeOf(p, call))
    /\ call' = ExecuteExit(call)
    /\ UNCHANGED <<p, ctx, ran, ctx0, runs, used, regVars, extVars>>

GrowNext ==
    \/ GrowUse
    \/ GrowBegin
    \/ GrowLoop
    \/ GrowReturn

GrowSpec == Init /\ [][GrowNext]_vars

(***************************************************************************)
(* MonoSpec: one registry, with Register, Get and BuildPipeline called one *)
(* after another in any order.                                             *)
(***************************************************************************)
\* pipeline, err := r.BuildPipeline(names, strategy).
MonoBuild ==
    /\ \E names \in NameSeqs, strategy \in ErrorStrategy :
          LET res == BuildPipeline(r, names, strategy)
          IN  last' = [op |-> "BuildPipeline", names |-> names,
                       strategy |-> strategy, pipeline |-> res.pipeline,
                       err |-> res.err, before |-> r]
    /\ UNCHANGED <<r, bound, pipeVars, extVars>>

MonoNext ==
    \/ CallRegister
    \/ CallGet
    \/ MonoBuild

MonoSpec == Init /\ [][MonoNext]_vars

(***************************************************************************)
(* LinSpec: goroutine 1 calls BuildPipeline while the others call          *)
(* Register.  BuildPipeline calls Get once per name, and each Get takes    *)
(* and releases the read lock.  The building goroutine keeps the part of   *)
(* the names it has got to (k), the pipeline so far, and, as history, the  *)
(* contents of the registry at each of its own steps (hist).               *)
(***************************************************************************)
\* Mutant: after a name that is not found the loop goes on, and the call
\* fails with the last failure.
AfterGet_GoOn(b, plugin, err) ==
    LET at_end == b.k >= Len(b.names)
        failed == err # Nil \/ b.err # Nil
    IN  [b EXCEPT !.k = b.k + 1,
                  !.pipeline = IF err = Nil /\ b.pipeline # Nil
                               THEN Use(b.pipeline, plugin) ELSE Nil,
                  !.err = IF err # Nil THEN ErrBuild(err) ELSE b.err,
                  !.pc = IF at_end THEN "done" ELSE "brlock"]

\* The loop body after Get has returned: fail, or Use and go to the next
\* name; after the last name return the pipeline.
AfterGet(b, plugin, err) ==
    IF err # Nil
    THEN [b EXCEPT !.pipeline = Nil, !.err = ErrBuild(err), !.pc = "done"]
    ELSE [b EXCEPT !.k = b.k + 1,
                   !.pipeline = Use(b.pipeline, plugin),
                   !.pc = IF b.k >= Len(b.names) THEN "done" ELSE "brlock"]

\* Goroutine g calls r.BuildPipeline(names, strategy).
LBuildCall(g) ==
    /\ g = 1
    /\ gs[g].pc = "idle"
    /\ \E names \in NameSeqs :
          gs' = [gs EXCEPT ![g] =
                    [pc |-> IF names = <<>> THEN "done" ELSE "brlock",
                     op |-> "BuildPipeline", names |-> names,
                     strategy |-> p.errorStrategy, k |-> 1,
                     pipeline |-> NewPipeline(p.errorStrategy),
                     plugin |-> Nil, err |-> Nil, hist |-> {r.plugins}]]
    /\ UNCHANGED <<mu, r, bound, last, pipeVars, concVars, chatVars>>

\* r.Get(names[k]): r.mu.RLock()
LBuildRLock(g) ==
    /\ gs[g].pc = "brlock"
    /\ CanRLock(mu)
    /\ mu' = RLock(mu, g)
    /\ gs' = [gs EXCEPT ![g].pc = "bread"]
    /\ UNCHANGED <<r, bound, last, pipeVars, concVars, chatVars>>

\* r.Get(names[k]): plugin, exists := r.plugins[name]
LBuildRead(g) ==
    /\ gs[g].pc = "bread"
    /\ LET res == RegistryGet(r, gs[g].names[gs[g].k])
       IN  gs' = [gs EXCEPT ![g].plugin = res.plugin, ![g].err = res.err,
                            ![g].pc = "brunlock",
                            ![g].hist = @ \cup {r.plugins}]
    /\ UNCHANGED <<mu, r, bound, last, pipeVars, concVars, chatVars>>

\* r.Get(names[k]): the deferred r.mu.RUnlock(); Get returns and the loop
\* body goes on.
LBuildRUnlock(g) ==
    /\ gs[g].pc = "brunlock"
    /\ mu' = RUnlock(mu, g)
    /\ gs' = [gs EXCEPT ![g] =
                AfterGet([gs[g] EXCEPT !.err = Nil, !.hist = @ \cup {r.plugins}],
                         gs[g].plugin, gs[g].err)]
    /\ UNCHANGED <<r, bound, last, pipeVars, concVars, chatVars>>

LinNext ==
    \E g \in Procs :
        \/ LRegCall(g)
        \/ LRegLock(g)
        \/ LRegDrain(g)
        \/ LRegCheck(g)
        \/ LRegStore(g)
        \/ LRegUnlock(g)
        \/ LBuildCall(g)
        \/ LBuildRLock(g)
        \/ LBuildRead(g)
        \/ LBuildRUnlock(g)

LinSpec == Init /\ [][LinNext]_vars

(***************************************************************************)
(* FairSpec: every goroutine but the last makes one call of Register or of *)
(* Get, and goroutine 1 may call BuildPipeline instead.  The scheduler is  *)
(* fair: a goroutine that can take a step from some moment on takes one.   *)
(***************************************************************************)
FairProcs == 1..(NumProcs - 1)

GoStep(g) ==
    \/ LRegCall(g)
    \/ LRegLock(g)
    \/ LRegDrain(g)
    \/ LRegCheck(g)
    \/ LRegStore(g)
    \/ LRegUnlock(g)
    \/ LGetCall(g)
    \/ LGetRLock(g)
    \/ LGetRead(g)
    \/ LGetRUnlock(g)
    \/ LBuildCall(g)
    \/ LBuildRLock(g)
    \/ LBuildRead(g)
    \/ LBuildRUnlock(g)

FairNext == \E g \in FairProcs : GoStep(g)

FairSpec ==
    /\ Init
    /\ [][FairNext]_vars
    /\ \A g \in FairProcs : WF_vars(GoStep(g))

(***************************************************************************)
(* AgainSpec: a pipeline is put together and then executed on one context  *)
(* again and again, with nothing else done to the context or the pipeline  *)
(* between the calls.                                                      *)
(***************************************************************************)
AgainNext ==
    \/ CtxUse
    \/ ExecuteBegin
    \/ ExecuteLoop
    \/ ExecuteReturn

AgainSpec == Init /\ [][AgainNext]_vars


(***************************************************************************)
(* HttpSpec: an HTTPHandler is made over a pipeline and answers requests,   *)
(* one after the other.                                                    *)
(***************************************************************************)
\* The request bodies sent.
Bodies == {"", " ", "{", "{}", "{\"a\":1}", "[1]", "1", "\"a\"", "true", "null"}

\* The JSON value a body holds, as encoding/json scans it.
JSONKind(body) ==
    CASE body \in {"{}", "{\"a\":1}"} -> "object"
      [] body = "[1]" -> "array"
      [] body = "1" -> "number"
      [] body = "\"a\"" -> "string"
      [] body = "true" -> "bool"
      [] body = "null" -> "null"
      [] OTHER -> "invalid"

\* The members of a body that holds a JSON object.
ObjectOf(body) == IF body = "{}" THEN EmptyMap ELSE [k \in {"a"} |-> 1]

\* var data map[string]any: the nil map.
NilMap == [dyn |-> "map[string]any", isNil |-> TRUE, entries |-> EmptyMap]

\* make(map[string]any) and the maps with entries.
MakeMap(entries) == [dyn |-> "map[string]any", isNil |-> FALSE, entries |-> entries]

\* json.Unmarshal(body, &data) with data a map[string]any: a JSON object
\* fills the map (making it when it is nil), JSON null leaves the map as it
\* is and is no error, every other JSON value is an UnmarshalTypeError and
\* anything else a SyntaxError.
Unmarshal(body, data) ==
    CASE JSONKind(body) = "object" ->
            [err |-> Nil,
             data |-> MakeMap([k \in DOMAIN data.entries \cup DOMAIN ObjectOf(body) |->
                                 IF k \in DOMAIN ObjectOf(body)
                                 THEN ObjectOf(body)[k] ELSE data.entries[k]])]
      [] JSONKind(body) = "null" -> [err |-> Nil, data |-> data]
      [] JSONKind(body) = "invalid" ->
            [err |-> [kind |-> "SyntaxError", msg |-> <<"invalid JSON">>],
             data |-> data]
      [] OTHER ->
            [err |-> [kind |-> "UnmarshalTypeError",
                      msg |-> <<"cannot unmarshal ", JSONKind(body)>>],
             data |-> data]

\* formatErrors(errors): the message of every error, in order.
formatErrors(errors) == [i \in 1..Len(errors) |-> ErrorText(errors[i])]

\* The requests: a body that can be read or not, with its text.
Requests == [readable : BOOLEAN, body : Bodies]

\* No request is being served.
HttpIdle == IF last.op = "ServeHTTP" THEN last.status # 0 ELSE TRUE

\* ServeHTTP up to the call of Execute: the body is read and parsed, and
\* either 400 is written or a context is made of the data and filled with
\* the headers, the query parameters, the method and the path.
ServeHTTP ==
    /\ HttpIdle
    /\ call.pc # "loop"
    /\ \E req \in Requests :
          LET prev == IF last.op = "ServeHTTP" THEN last.status ELSE 0
              parsed == IF req.body # ""
                        THEN Unmarshal(req.body, NilMap)
                        ELSE [err |-> Nil, data |-> MakeMap(EmptyMap)]
              c1 == Set(NewContext(parsed.data), "headers", MakeMap(EmptyMap))
              c2 == Set(c1, "query", MakeMap(EmptyMap))
              c3 == Set(c2, "method", "POST")
              c4 == Set(c3, "path", "/process")
          IN  IF ~req.readable
              THEN /\ last' = [op |-> "ServeHTTP", req |-> req, prev |-> prev,
                               status |-> 400, executed |-> FALSE,
                               payload |-> <<"Failed to read request body">>]
                   /\ UNCHANGED <<ctx, call, ran, ctx0>>
              ELSE IF parsed.err # Nil
              THEN /\ last' = [op |-> "ServeHTTP", req |-> req, prev |-> prev,
                               status |-> 400, executed |-> FALSE,
                               payload |-> <<"Invalid JSON in request body">>]
                   /\ UNCHANGED <<ctx, call, ran, ctx0>>
              ELSE /\ last' = [op |-> "ServeHTTP", req |-> req, prev |-> prev,
                               status |-> 0, executed |-> TRUE,
                               payload |-> <<>>]
                   /\ ctx' = c4
                   /\ ctx0' = c4
                   /\ call' = ExecuteEnter(p)
                   /\ ran' = <<>>
    /\ UNCHANGED <<p, runs, used, r, bound, extVars>>

\* ServeHTTP after Execute has returned: 500 with the failure's text, or 422
\* with the messages of the collected errors, or 200 with the data.
HttpRespond ==
    /\ last.op = "ServeHTTP"
    /\ last.status = 0
    /\ call.pc = "done"
    /\ last' = IF call.ret # Nil
               THEN [last EXCEPT !.status = 500, !.payload = Error(call.ret)]
               ELSE IF Len(ctx.Errors) > 0
               THEN [last EXCEPT !.status = 422,
                                 !.payload = formatErrors(ctx.Errors)]
               ELSE [last EXCEPT !.status = 200, !.payload = <<GetData(ctx)>>]
    /\ UNCHANGED <<pipeVars, r, bound, extVars>>

HttpNext ==
    \/ CtxUse
    \/ ServeHTTP
    \/ ExecuteLoop
    \/ ExecuteReturn
    \/ HttpRespond

HttpSpec == Init /\ [][HttpNext]_vars


(***************************************************************************)
(* WindowSpec: a ContextManagerPlugin is made with some history size and   *)
(* executed again and again on one context, the caller putting the next    *)
(* message into the context's data before each run.                        *)
(***************************************************************************)
\* The sizes the plugin is constructed with: none, zero and the small ones.
WindowSizes == (0 - 1)..(MaxMsgs - 1)

\* NewContextManagerPlugin(size).
WinNew ==
    /\ last.op = "none"
    /\ \E size \in WindowSizes :
          /\ p' = Use(p, NewContextManagerPlugin(size))
          /\ last' = [op |-> "NewContextManagerPlugin", size |-> size]
    /\ UNCHANGED <<ctx, call, ran, ctx0, runs, used, r, bound, extVars>>

\* ctx.SetData(msg) and then plugin.Execute(ctx), on the one context.
WinExecute ==
    /\ last.op \in {"NewContextManagerPlugin", "ContextManagerExecute"}
    /\ Handled < MaxMsgs
    /\ \E text \in ChatTexts, sessionID \in Sessions :
          LET msg == Message(text, "u1", sessionID, Handled + 1)
          IN  \E res \in ContextManagerExecute(p.plugins[1], SetData(ctx, msg)) :
                 /\ ctx' = res.ctx
                 /\ last' = [op |-> "ContextManagerExecute", size |-> last.size,
                             msg |-> msg, err |-> res.err]
                 /\ sent' = [sent EXCEPT ![sessionID] = Append(@, msg)]
    /\ UNCHANGED <<p, call, ran, ctx0, runs, used, r, bound, lockVars, concVars>>

WinNext ==
    \/ WinNew
    \/ WinExecute

WindowSpec == Init /\ [][WinNext]_vars


(***************************************************************************)
(* RouterSpec: a DecisionRouterPlugin is executed on a context whose       *)
(* metadata the caller (the scoring stage before it) fills.  Scores are    *)
(* counted in tenths: 3 is 0.3 and 10 is 1.0.                              *)
(***************************************************************************)
\* Below this: auto-approve (0.3, in tenths).
ApproveThreshold == 3

\* At or above this the code rejects (0.7, in tenths).
ReviewThreshold == 7

\* The overall scores: 0.0, 0.1, ..., 1.0.
Scores == 0..(ApproveThreshold + ReviewThreshold)

ModerationScore(profanityScore, spamScore, toxicityScore, overallScore) ==
    [dyn |-> "ModerationScore", ProfanityScore |-> profanityScore,
     SpamScore |-> spamScore, ToxicityScore |-> toxicityScore,
     OverallScore |-> overallScore]

ModerationDecision(action, score, reason, flagged) ==
    [dyn |-> "ModerationDecision", Action |-> action, Score |-> score,
     Reason |-> reason, Flagged |-> flagged]

NewDecisionRouterPlugin ==
    [kind |-> "DecisionRouter", approveThreshold |-> ApproveThreshold,
     reviewThreshold |-> ReviewThreshold]

\* DecisionRouterPlugin.Execute.
DecisionRouterExecute(pl, c) ==
    LET scoreVal == Get(c, "moderation_score")
        score == scoreVal.value
        decision ==
            IF score.OverallScore < pl.approveThreshold
            THEN ModerationDecision("approve", score,
                                    "Content meets quality standards", FALSE)
            ELSE IF score.OverallScore < pl.reviewThreshold
            THEN ModerationDecision("review", score,
                                    "Content requires manual review", TRUE)
            ELSE ModerationDecision("reject", score,
                                    "Content violates community guidelines", TRUE)
    IN  IF ~scoreVal.exists
        THEN [ctx |-> c,
              err |-> [kind |-> "errorString",
                       msg |-> <<"moderation_score not found in context">>]]
        ELSE IF score.dyn # "ModerationScore"
        THEN [ctx |-> c,
              err |-> [kind |-> "errorString",
                       msg |-> <<"expected ModerationScore, got ", score.dyn>>]]
        ELSE [ctx |-> Set(c, "moderation_decision", decision), err |-> Nil]

\* What the caller puts under "moderation_score": a score, or a value of
\* another type.
ScoreValues ==
    {ModerationScore(0, 0, 0, overall) : overall \in Scores}
        \cup {[dyn |-> "string", text |-> <<"high">>]}

\* ctx = NewContext(data): a context without a score.
RouterNewContext ==
    /\ \E data \in DataValues : ctx' = NewContext(data)
    /\ last' = [op |-> "NewContext"]
    /\ UNCHANGED <<p, call, ran, ctx0, runs, used, r, bound, extVars>>

\* ctx.Set("moderation_score", value).
RouterSetScore ==
    /\ \E value \in ScoreValues : ctx' = Set(ctx, "moderation_score", value)
    /\ last' = [op |-> "Set"]
    /\ UNCHANGED <<p, call, ran, ctx0, runs, used, r, bound, extVars>>

\* plugin.Execute(ctx).
RouterExecute ==
    /\ LET res == DecisionRouterExecute(NewDecisionRouterPlugin, ctx)
       IN  /\ ctx' = res.ctx
           /\ last' = [op |-> "DecisionRouterExecute", err |-> res.err,
                       before |-> ctx]
    /\ UNCHANGED <<p, call, ran, ctx0, runs, used, r, bound, extVars>>

RouterNext ==
    \/ RouterNewContext
    \/ RouterSetScore
    \/ RouterExecute

RouterSpec == Init /\ [][RouterNext]_vars

(***************************************************************************)
(* Helpers of the properties.                                              *)
(***************************************************************************)
\* The sequence <<0, 1, ..., n-1>>.
Indices(n) == [j \in 1..n |-> j - 1]

Min(S) == CHOOSE x \in S : \A y \in S : x <= y

IsPrefix(s, t) == Len(s) <= Len(t) /\ SubSeq(t, 1, Len(s)) = s

\* The zero-based indices of the failing plugins of a plugin list.
FailIdx(ps) == {j \in 0..(Len(ps) - 1) : ps[j + 1].fails}

\* The same, as an ascending sequence.
FailSeq(ps) == SelectSeq(Indices(Len(ps)), LAMBDA j : ps[j + 1].fails)

\* The identities of a plugin list, in its order.
IdsOf(ps) == [j \in 1..Len(ps) |-> ps[j].id]

\* The context after plugins 0..k-1 of ps have each run once, in order, on c,
\* with nothing else touching the context in between.
RECURSIVE RunPlugins(_, _, _)
RunPlugins(ps, k, c) ==
    IF k = 0 THEN c ELSE PluginExecute(ps[k], RunPlugins(ps, k - 1, c)).ctx

Done == call.pc = "done"

Started == call.pc \in {"loop", "done"}

\* The plugins the current call iterates are the ones passed to Use, in the
\* order of the Use calls.
InAppendOrder == call.rng = used

(***************************************************************************)
(* C1: under either strategy, when no plugin of the pipeline fails,        *)
(* Execute returns nil having run every plugin exactly once in the order   *)
(* of the Use calls: the indices run are 0,1,...,n-1 and the plugins'      *)
(* identities are appended to the metadata list in that order.             *)
(***************************************************************************)
C1_AllSucceedInOrder ==
    (Done /\ FailIdx(call.rng) = {}) =>
        /\ call.ret = Nil
        /\ InAppendOrder
        /\ ran = Indices(Len(used))
        /\ TraceOf(ctx) = TraceOf(ctx0) \o IdsOf(used)

C1_Witness ==
    /\ Done
    /\ FailIdx(call.rng) = {}
    /\ Len(call.rng) >= 2
    /\ call.rng[1].id # call.rng[2].id
    /\ call.ret = Nil
    /\ TraceOf(ctx0) = <<>>
    /\ TraceOf(ctx) = IdsOf(call.rng)

(***************************************************************************)
(* C2: under AbortOnError, with k the first failing index, at every point  *)
(* of the call the plugins run so far are 0,1,...,j-1 for some j <= k+1,   *)
(* each once and in order, and when the call has returned they are exactly *)
(* 0..k: no plugin after k has run.                                        *)
(***************************************************************************)
C2_AbortStopsAtFirstFailure ==
    (p.errorStrategy = AbortOnError /\ Started /\ FailIdx(call.rng) # {}) =>
        LET k == Min(FailIdx(call.rng))
        IN  /\ Len(ran) <= k + 1
            /\ ran = Indices(Len(ran))
            /\ Done => ran = Indices(k + 1)
            /\ TraceOf(ctx) = TraceOf(ctx0) \o SubSeq(IdsOf(call.rng), 1, Len(ran))
            /\ CountOf(ctx) = CountOf(ctx0) + Len(ran)

C2_Witness ==
    /\ p.errorStrategy = AbortOnError
    /\ Done
    /\ Len(call.rng) >= 3
    /\ FailIdx(call.rng) = {1, 2}
    /\ ran = <<0, 1>>

(***************************************************************************)
(* C3: under AbortOnError, with k the first failing index and f the        *)
(* failure plugin k returned, Execute returns a PipelineError whose        *)
(* PluginIndex is k, whose Unwrap is f and whose text is                   *)
(* "plugin <k> failed: <f>".                                               *)
(***************************************************************************)
C3_AbortReturnsStageFailure ==
    (p.errorStrategy = AbortOnError /\ Done /\ FailIdx(call.rng) # {}) =>
        LET k == Min(FailIdx(call.rng))
            f == PluginFailure(call.rng[k + 1])
        IN  /\ call.ret.kind = "PipelineError"
            /\ call.ret.PluginIndex = k
            /\ Unwrap(call.ret) = f
            /\ Error(call.ret) = <<"plugin ", k, " failed: ", <<"boom", call.rng[k + 1].id>> >>

C3_Witness ==
    /\ p.errorStrategy = AbortOnError
    /\ Done
    /\ Len(call.rng) >= 3
    /\ Min(FailIdx(call.rng) \cup {Len(call.rng)}) = 2
    /\ call.ret.kind = "PipelineError"
    /\ call.ret.PluginIndex = 2

(***************************************************************************)
(* C4: under ContinueOnError every finished Execute call has returned nil, *)
(* whichever plugins failed.                                               *)
(***************************************************************************)
C4_ContinueReturnsNil ==
    (p.errorStrategy = ContinueOnError /\ Done) => call.ret = Nil

C4_Witness ==
    /\ p.errorStrategy = ContinueOnError
    /\ Done
    /\ Len(call.rng) >= 2
    /\ FailIdx(call.rng) = 0..(Len(call.rng) - 1)
    /\ call.ret = Nil

(***************************************************************************)
(* C5: under ContinueOnError, after a call on a fresh context, the error   *)
(* sequence has one entry per failing plugin, in ascending index order:    *)
(* entry j is the PipelineError of the j-th smallest failing index,        *)
(* wrapping the failure that plugin returned.                              *)
(***************************************************************************)
Fresh(c) == c.Metadata = EmptyMap /\ c.Errors = <<>> /\ c.state = EmptyMap

C5_ContinueCollectsInOrder ==
    (p.errorStrategy = ContinueOnError /\ Done /\ Fresh(ctx0)) =>
        LET F == FailSeq(call.rng)
        IN  /\ Len(ctx.Errors) = Cardinality(FailIdx(call.rng))
            /\ Len(ctx.Errors) = Len(F)
            /\ \A j \in 1..Len(F) :
                  /\ ctx.Errors[j].kind = "PipelineError"
                  /\ ctx.Errors[j].PluginIndex = F[j]
                  /\ Unwrap(ctx.Errors[j]) = PluginFailure(call.rng[F[j] + 1])
            /\ \A j \in 1..(Len(ctx.Errors) - 1) :
                  ctx.Errors[j].PluginIndex < ctx.Errors[j + 1].PluginIndex

C5_Witness ==
    /\ p.errorStrategy = ContinueOnError
    /\ Done
    /\ Fresh(ctx0)
    /\ Len(call.rng) >= 3
    /\ FailIdx(call.rng) = {0, 2}
    /\ Len(ctx.Errors) = 2
    /\ ctx.Errors[1].PluginIndex = 0
    /\ ctx.Errors[2].PluginIndex = 2

(***************************************************************************)
(* C6: under ContinueOnError the call runs plugin 0, then 1, ... each once *)
(* whatever they return: while looping the plugins run are 0..i-1, and on  *)
(* return all n have run once, in order.                                   *)
(***************************************************************************)
C6_ContinueRunsAll ==
    (p.errorStrategy = ContinueOnError /\ Started) =>
        /\ ran = Indices(Len(ran))
        /\ call.pc = "loop" => Len(ran) = call.i
        /\ Done => ran = Indices(Len(call.rng))
        /\ TraceOf(ctx) = TraceOf(ctx0) \o SubSeq(IdsOf(call.rng), 1, Len(ran))
        /\ CountOf(ctx) = CountOf(ctx0) + Len(ran)

C6_Witness ==
    /\ p.errorStrategy = ContinueOnError
    /\ Done
    /\ Len(call.rng) >= 2
    /\ call.rng[1].fails
    /\ ran = Indices(Len(call.rng))
    /\ CountOf(ctx) = Len(call.rng)

(***************************************************************************)
(* C7: Execute never alters what the plugins wrote.  At every point of a   *)
(* call the data, metadata and state are what the plugins run so far left, *)
(* the failing one included, and the only thing Execute itself does to the *)
(* context is append to the error sequence.                                *)
(***************************************************************************)
C7_NoRollback ==
    Started =>
        LET e == RunPlugins(call.rng, Len(ran), ctx0)
        IN  /\ ctx.Data = e.Data
            /\ ctx.Metadata = e.Metadata
            /\ ctx.state = e.state
            /\ IsPrefix(ctx0.Errors, ctx.Errors)

C7_Witness ==
    /\ p.errorStrategy = AbortOnError
    /\ Done
    /\ call.ret # Nil
    /\ call.ret.PluginIndex = 1
    /\ call.rng[1].id # call.rng[2].id
    /\ ctx.Data = <<"plugin", call.rng[2].id>>
    /\ TraceOf(ctx) = TraceOf(ctx0) \o <<call.rng[1].id, call.rng[2].id>>
    /\ CountOf(ctx) = CountOf(ctx0) + 2

(***************************************************************************)
(* C8: an Execute call on an AbortOnError pipeline leaves the context's    *)
(* error sequence as it was when the call began, whether it returns nil or *)
(* a failure.                                                              *)
(***************************************************************************)
C8_AbortLeavesErrors ==
    (p.errorStrategy = AbortOnError /\ Started) => ctx.Errors = ctx0.Errors

C8_Witness ==
    /\ p.errorStrategy = AbortOnError
    /\ Done
    /\ call.ret # Nil
    /\ ctx0.Errors = <<CallerError>>
    /\ ctx.Errors = <<CallerError>>

(***************************************************************************)
(* C9: a Register of a name that is already bound returns the duplicate-   *)
(* name failure and leaves the registry as it was; and whatever calls have *)
(* followed, Get of a name returns the plugin of the Register that         *)
(* succeeded for it.                                                       *)
(***************************************************************************)
C9_DuplicateRegisterFails ==
    /\ (last.op = "Register" /\ last.name \in DOMAIN last.before.plugins) =>
          /\ last.err = ErrDuplicate(last.name)
          /\ r = last.before
    /\ \A b \in bound :
          RegistryGet(r, b.name) = [plugin |-> b.plugin, err |-> Nil]

C9_Witness ==
    /\ last.op = "Register"
    /\ last.err = ErrDuplicate(last.name)
    /\ RegistryGet(r, last.name).plugin # last.plugin
    /\ [name |-> last.name, plugin |-> RegistryGet(r, last.name).plugin] \in bound
    /\ DOMAIN r.plugins = Names

(***************************************************************************)
(* C10: Get(name) returns the not-found failure and no plugin exactly when *)
(* no Register of that name has succeeded; otherwise it returns nil and    *)
(* the plugin of the one Register of that name that succeeded.  Get leaves *)
(* the registry as it was.                                                 *)
(***************************************************************************)
C10_GetFindsExactlyTheBound ==
    last.op = "Get" =>
        LET hits == {b \in bound : b.name = last.name}
        IN  /\ (hits = {}) <=> (last.err # Nil)
            /\ (hits = {}) => (last.err = ErrNotFound(last.name) /\ last.plugin = Nil)
            /\ (hits # {}) =>
                  /\ Cardinality(hits) = 1
                  /\ last.err = Nil
                  /\ [name |-> last.name, plugin |-> last.plugin] \in hits
            /\ r = last.before

C10_Witness ==
    /\ last.op = "Get"
    /\ last.err = ErrNotFound(last.name)
    /\ last.plugin = Nil
    /\ bound # {}
    /\ \A b \in bound : b.name # last.name

(***************************************************************************)
(* C11: when some name of the list is unbound, BuildPipeline returns no    *)
(* pipeline and the build failure wrapping the not-found failure of the    *)
(* first unbound name in list order; it has passed to Get the names up to  *)
(* that one and no later name; the registry is as it was and the caller    *)
(* holds the pipeline it held before.                                      *)
(***************************************************************************)
\* The positions of the names of a list that a registry does not bind.
Unbound(reg, names) == {k \in 1..Len(names) : names[k] \notin DOMAIN reg.plugins}

C11_BuildFailsFast ==
    (last.op = "BuildPipeline" /\ Unbound(last.before, last.names) # {}) =>
        LET j == Min(Unbound(last.before, last.names))
        IN  /\ last.pipeline = Nil
            /\ last.err = ErrBuild(ErrNotFound(last.names[j]))
            /\ Unwrap(last.err) = ErrNotFound(last.names[j])
            /\ last.looked = SubSeq(last.names, 1, j)
            /\ r = last.before
            /\ p = last.held

C11_Witness ==
    /\ last.op = "BuildPipeline"
    /\ Len(last.names) = 3
    /\ Unbound(last.before, last.names) = {2}
    /\ last.pipeline = Nil
    /\ last.looked = SubSeq(last.names, 1, 2)

(***************************************************************************)
(* C12: when every name of the list is bound, BuildPipeline returns nil    *)
(* and a pipeline with the given strategy whose i-th plugin is the one     *)
(* bound to the i-th name; an Execute of it runs those plugins in the      *)
(* order of the names.                                                     *)
(***************************************************************************)
C12_BuildResolvesInOrder ==
    (last.op = "BuildPipeline" /\ Unbound(last.before, last.names) = {}) =>
        LET want == [k \in 1..Len(last.names) |-> last.before.plugins[last.names[k]]]
        IN  /\ last.err = Nil
            /\ last.pipeline = [plugins |-> want, errorStrategy |-> last.strategy]
            /\ p = last.pipeline
            /\ Started =>
                  /\ call.rng = want
                  /\ ran = Indices(Len(ran))
                  /\ TraceOf(ctx) = TraceOf(ctx0) \o SubSeq(IdsOf(want), 1, Len(ran))
            /\ (Done /\ call.ret = Nil) => Len(ran) = Len(last.names)

C12_Witness ==
    /\ last.op = "BuildPipeline"
    /\ Len(last.names) = 3
    /\ last.names[1] = last.names[3]
    /\ last.names[1] # last.names[2]
    /\ last.err = Nil
    /\ p.plugins[1] = p.plugins[3]
    /\ p.plugins[1].id # p.plugins[2].id
    /\ Done
    /\ ran = <<0, 1, 2>>
    /\ TraceOf(ctx) = <<p.plugins[1].id, p.plugins[2].id, p.plugins[1].id>>

(***************************************************************************)
(* C13: with goroutines calling Register and Get concurrently, at most one *)
(* Register is between its Lock and its Unlock, and no Get is between its  *)
(* RLock and its RUnlock while a Register is; several Gets may be.         *)
(***************************************************************************)
InWrite(g) == gs[g].pc \in {"check", "store", "unlock"}

InRead(g) == gs[g].pc \in {"read", "runlock"}

C13_WritersExclude ==
    LET writers == {g \in Procs : InWrite(g)}
        readers == {g \in Procs : InRead(g)}
    IN  /\ Cardinality(writers) <= 1
        /\ writers # {} => readers = {}
        /\ writers = IF mu.writer = 0 THEN {} ELSE {mu.writer}
        /\ readers = mu.readers

C13_Witness ==
    /\ Cardinality({g \in Procs : InRead(g)}) >= 2
    /\ \E g \in Procs : gs[g].pc = "drain"

(***************************************************************************)
(* C14: when goroutines call Register concurrently with the same name,     *)
(* which was unbound, and plugins of their own, exactly one of the calls   *)
(* that have returned has returned nil and the others the duplicate-name   *)
(* failure; a Get of the name called after the successful Register has     *)
(* returned, returns that Register's plugin.                               *)
(***************************************************************************)
\* The goroutines whose Register of name has returned.
Registered(name) ==
    {g \in Procs : gs[g].op = "Register" /\ gs[g].name = name /\ gs[g].pc = "done"}

C14_OneRegisterWins ==
    \A name \in Names :
        LET all == Registered(name)
            won == {g \in all : gs[g].err = Nil}
        IN  /\ all # {} => Cardinality(won) = 1
            /\ \A g \in all \ won : gs[g].err = ErrDuplicate(name)
            /\ \A g \in Procs :
                  (/\ gs[g].op = "Get"
                   /\ gs[g].name = name
                   /\ gs[g].pc = "done"
                   /\ gs[g].seen # {}) =>
                      /\ gs[g].err = Nil
                      /\ \E w \in won : gs[g].plugin = PluginOf(w)

C14_Witness ==
    \E name \in Names :
        \E w \in Registered(name), l \in Registered(name), g \in Procs :
            /\ gs[w].err = Nil
            /\ gs[l].err = ErrDuplicate(name)
            /\ gs[g].op = "Get"
            /\ gs[g].name = name
            /\ gs[g].pc = "done"
            /\ gs[g].seen # {}
            /\ gs[g].plugin = PluginOf(w)

(***************************************************************************)
(* C15: when one pipeline is executed against distinct contexts by calls   *)
(* that interleave, with no Use under way and plugins that keep no state,  *)
(* every call that has returned has returned what it returns when run      *)
(* alone on its context, and has left the context as that run leaves it.   *)
(***************************************************************************)
\* A call run to its end with nothing else running: what it returns and the
\* context it leaves.
RECURSIVE RunToEnd(_, _, _)
RunToEnd(strategy, f, c) ==
    IF f.pc = "done" THEN [ret |-> f.ret, ctx |-> c]
    ELSE IF f.i >= Len(f.rng) THEN [ret |-> Nil, ctx |-> c]
    ELSE LET res == ExecuteIteration(strategy, f, c)
         IN  RunToEnd(strategy, res.call, res.ctx)

RunAlone(pipe, c) == RunToEnd(pipe.errorStrategy, ExecuteEnter(pipe), c)

C16_EmptyPipelineSucceeds ==
    (Done /\ used = <<>>) =>
        /\ call.rng = <<>>
        /\ call.ret = Nil
        /\ ran = <<>>
        /\ ctx.Data = ctx0.Data
        /\ ctx.Metadata = ctx0.Metadata
        /\ ctx.state = ctx0.state
        /\ ctx.Errors = ctx0.Errors

C16_Witness ==
    /\ Done
    /\ used = <<>>
    /\ p.plugins = <<>>
    /\ p.errorStrategy = ContinueOnError
    /\ call.ret = Nil
    /\ ctx.Errors = <<CallerError>>

(***************************************************************************)
(* C17: Execute is not idempotent on a context.  A second or later call on *)
(* the same context that returns nil has run every plugin again, on the    *)
(* context as the earlier calls left it: each plugin has added one more    *)
(* entry to the metadata list and counted itself once more, on top of what *)
(* was there.                                                              *)
(***************************************************************************)
C17_RerunAppendsAgain ==
    (Done /\ runs >= 2 /\ call.ret = Nil) =>
        /\ ran = Indices(Len(call.rng))
        /\ TraceOf(ctx) = TraceOf(ctx0) \o IdsOf(call.rng)
        /\ Len(TraceOf(ctx)) = Len(TraceOf(ctx0)) + Len(call.rng)
        /\ CountOf(ctx) = CountOf(ctx0) + Len(call.rng)

C17_Witness ==
    /\ Done
    /\ runs = 2
    /\ call.ret = Nil
    /\ Len(call.rng) = 1
    /\ TraceOf(ctx0) = <<call.rng[1].id>>
    /\ TraceOf(ctx) = <<call.rng[1].id, call.rng[1].id>>
    /\ CountOf(ctx) = 2

(***************************************************************************)
(* C18: no step of an Execute call changes the pipeline: while a call is   *)
(* under way and when it has returned the plugin list is the one the call  *)
(* began with.  The only change a step makes to the plugin list is Use     *)
(* appending one plugin at the end, and no step changes the strategy.      *)
(***************************************************************************)
C18_PipelineReadOnly ==
    /\ [](Started => p.plugins = call.rng)
    /\ [][/\ p'.errorStrategy = p.errorStrategy
          /\ call.pc = "loop" => p' = p
          /\ p'.plugins # p.plugins =>
                \E plugin \in Plugins : p'.plugins = Append(p.plugins, plugin)]_vars

C18_Witness ==
    /\ Done
    /\ call.ret # Nil
    /\ Len(p.plugins) >= 2
    /\ p.plugins = call.rng
    /\ p.plugins = used
    /\ p.errorStrategy = AbortOnError

(***************************************************************************)
(* C19: NewContext(d) gives a context with data d and with a metadata map, *)
(* a state map and an error sequence that are empty and not nil, whatever  *)
(* was written to another context.  Under Set, SetData, SetState, AddError *)
(* and Execute the three stay non-nil, no key leaves either map and the    *)
(* error sequence only grows at its end.                                   *)
(***************************************************************************)
\* Both maps are maps and not nil; the errors are a sequence, empty or not.
NonNil(c) ==
    /\ c.Metadata # Nil
    /\ c.state # Nil
    /\ (c.Errors = <<>> \/ Len(c.Errors) >= 1)

Monotone(c, d) ==
    /\ DOMAIN c.Metadata \subseteq DOMAIN d.Metadata
    /\ DOMAIN c.state \subseteq DOMAIN d.state
    /\ IsPrefix(c.Errors, d.Errors)

C19_ContextFieldsKept ==
    /\ [](NonNil(ctx) /\ \A c \in Ctxs : NonNil(cs[c]))
    /\ []((last.op = "NewContext" /\ runs = 0) =>
            /\ ctx.Data = last.data
            /\ DOMAIN ctx.Metadata = {}
            /\ DOMAIN ctx.state = {}
            /\ Len(ctx.Errors) = 0)
    /\ [][CtxNewContext \/ Monotone(ctx, ctx')]_vars

C19_Witness ==
    /\ Done
    /\ runs = 2
    /\ DOMAIN ctx.Metadata = {MetaKey, "trace"}
    /\ DOMAIN ctx.state = {StateKey, "count"}
    /\ Len(ctx.Errors) >= 2
    /\ ctx.Errors[1] = CallerError
    /\ StateKey \in DOMAIN cs[1].state

(***************************************************************************)
(* C20: when the chatbot server has answered the k-th message of a session *)
(* with 200, the conversation history that ContextManagerPlugin recorded   *)
(* for it is the last min(k, maxHistorySize) messages of that session.     *)
(***************************************************************************)
\* The history in the conversation state the pipeline left in the metadata.
RecordedHistory == Get(ctx, "conversation_state").value.History

Answered == last.op = "HandleChat" /\ last.status = 200

C20_HistoryAcrossMessages ==
    Answered =>
        LET session == sent[last.msg.SessionID]
            k == Len(session)
            n == Min({k, ServerHistorySize})
        IN  RecordedHistory = SubSeq(session, k - n + 1, k)

\* What holds instead: the history is the one message just handled.
ChatHistoryIsOneMessage ==
    Answered => RecordedHistory = <<last.msg>>

\* The second message of a session has been answered.
C20_Witness ==
    Answered /\ Len(sent[last.msg.SessionID]) = 2

(***************************************************************************)
(* C21: each Context method touches its own field only.  After Set(k, v)   *)
(* the metadata differs at k alone and holds v there; after SetState(k, v) *)
(* the state differs at k alone; after SetData(d) the data is d; after     *)
(* AddError(e) the errors are the ones before with e at the end; and in    *)
(* every case the other three fields are as before.  Get, GetState and     *)
(* GetData leave the whole context as it was.  So Set never makes GetState *)
(* find the key and SetState never makes Get find it.                      *)
(***************************************************************************)
\* Map m is map n with value v at key k.
IsMapWith(m, n, k, v) ==
    /\ DOMAIN m = DOMAIN n \cup {k}
    /\ m[k] = v
    /\ \A j \in DOMAIN n \ {k} : m[j] = n[j]

C21_MethodsTouchOwnField ==
    LET b == last.before
    IN  /\ last.op = "Set" =>
            /\ IsMapWith(ctx.Metadata, b.Metadata, last.key, last.value)
            /\ ctx.state = b.state /\ ctx.Data = b.Data /\ ctx.Errors = b.Errors
            /\ GetState(ctx, last.key) = GetState(b, last.key)
        /\ last.op = "SetState" =>
            /\ IsMapWith(ctx.state, b.state, last.key, last.value)
            /\ ctx.Metadata = b.Metadata /\ ctx.Data = b.Data
            /\ ctx.Errors = b.Errors
            /\ Get(ctx, last.key) = Get(b, last.key)
        /\ last.op = "SetData" =>
            /\ ctx.Data = last.value
            /\ ctx.Metadata = b.Metadata /\ ctx.state = b.state
            /\ ctx.Errors = b.Errors
        /\ last.op = "AddError" =>
            /\ ctx.Errors = b.Errors \o <<last.value>>
            /\ ctx.Metadata = b.Metadata /\ ctx.state = b.state
            /\ ctx.Data = b.Data
        /\ last.op \in {"Get", "GetState", "GetData"} =>
            /\ ctx.Metadata = b.Metadata /\ ctx.state = b.state
            /\ ctx.Data = b.Data /\ ctx.Errors = b.Errors

\* Set(k, v) on a context whose metadata has the other key, whose state map
\* has neither and which has an error: GetState(k) still finds nothing.
C21_Witness ==
    /\ last.op = "Set"
    /\ DOMAIN last.before.Metadata = FrameKeys \ {last.key}
    /\ DOMAIN ctx.Metadata = FrameKeys
    /\ ~GetState(ctx, last.key).exists
    /\ Len(ctx.Errors) = 2
    /\ ctx.Errors[1] # ctx.Errors[2]

(***************************************************************************)
(* C22: the plugins one Execute call runs are those of the pipeline when   *)
(* the call starts.  A plugin that a running plugin appends with Use is    *)
(* not run in that call; the call runs exactly the plugins present at its  *)
(* start; and every later call runs the appended plugin, after all the     *)
(* plugins that were there before it, so that it is the last one run.      *)
(***************************************************************************)
\* The number of plugins of the list that call Use when they run.
Growers(ps) == Cardinality({j \in 1..Len(ps) : Grows(ps[j])})

\* n times the appended plugin.
Extras(n) == [j \in 1..n |-> ExtraPlugin]

C22_PluginSetFixedAtStart ==
    /\ Started =>
          /\ \A j \in 1..Len(ran) : ran[j] < Len(last.start)
          /\ IsPrefix(TraceOf(ctx0), TraceOf(ctx))
          /\ Len(TraceOf(ctx)) - Len(TraceOf(ctx0)) <= Len(last.start)
    /\ (Done /\ call.ret = Nil) =>
          /\ ran = Indices(Len(last.start))
          /\ TraceOf(ctx) = TraceOf(ctx0) \o IdsOf(last.start)
          /\ p.plugins = last.start \o Extras(Growers(last.start))
          /\ last.start = used \o Extras((runs - 1) * Growers(used))
          /\ (runs >= 2 /\ Growers(used) > 0) =>
                /\ last.start[Len(last.start)] = ExtraPlugin
                /\ TraceOf(ctx)[Len(TraceOf(ctx))] = ExtraPlugin.id

\* The third call of a pipeline of one growing plugin: the call ran that
\* plugin and the two plugins appended by the first two calls, and not the
\* one appended in this call.
C22_Witness ==
    /\ Done
    /\ runs = 3
    /\ Len(used) = 1
    /\ Grows(used[1])
    /\ ran = <<0, 1, 2>>
    /\ Len(p.plugins) = 4
    /\ TraceOf(ctx) = <<0, 0, ExtraPlugin.id, 0, ExtraPlugin.id, ExtraPlugin.id>>

(***************************************************************************)
(* C23: the bindings of the registry only grow.  A name that a Register    *)
(* bound to a plugin is bound to that plugin in every later state, and no  *)
(* step of Register, Get or BuildPipeline takes a name out of the registry *)
(* or binds it to another plugin.                                          *)
(***************************************************************************)
C23_BindingsOnlyGrow ==
    /\ [](\A b \in bound :
            /\ b.name \in DOMAIN r.plugins
            /\ r.plugins[b.name] = b.plugin)
    /\ [][\A name \in DOMAIN r.plugins :
            /\ name \in DOMAIN r'.plugins
            /\ r'.plugins[name] = r.plugins[name]]_vars

\* Both names are bound and a Register of a bound name with another plugin
\* has just failed.
C23_Witness ==
    /\ last.op = "Register"
    /\ last.err # Nil
    /\ Cardinality(bound) = 2
    /\ DOMAIN r.plugins = Names
    /\ r.plugins[last.name] # last.plugin

(***************************************************************************)
(* C24: a BuildPipeline that ran while other goroutines called Register    *)
(* has the outcome (the pipeline, or the failure naming the name not       *)
(* found) of a BuildPipeline run with nothing beside it on the contents    *)
(* the registry had at one instant between its call and its return.        *)
(***************************************************************************)
\* The goroutines whose BuildPipeline has returned.
Built == {g \in Procs : gs[g].op = "BuildPipeline" /\ gs[g].pc = "done"}

\* The outcome of goroutine g's call is that of an atomic call on contents.
SameAsAtomic(g, contents) ==
    LET res == BuildPipeline([plugins |-> contents], gs[g].names, gs[g].strategy)
    IN  /\ res.err = gs[g].err
        /\ res.pipeline = gs[g].pipeline

C24_BuildLinearizable ==
    \A g \in Built : \E contents \in gs[g].hist : SameAsAtomic(g, contents)

\* A call of two names or more that succeeded although the registry changed
\* twice while it ran, and that would have failed at an earlier instant.
C24_Witness ==
    \E g \in Built :
        /\ Len(gs[g].names) >= 2
        /\ gs[g].err = Nil
        /\ Cardinality(gs[g].hist) >= 3
        /\ \E contents \in gs[g].hist : ~SameAsAtomic(g, contents)

(***************************************************************************)
(* C25: the registry's lock never blocks for good.  Under a fair scheduler *)
(* every call of Register, Get and BuildPipeline that was made returns; a  *)
(* goroutine whose call has returned, with or without a failure, holds no  *)
(* lock; and BuildPipeline holds no lock when it calls Get.                *)
(***************************************************************************)
\* Goroutine g holds the lock or has announced itself as a writer.
Holds(g) == g \in mu.readers \/ mu.writer = g \/ mu.pending = g

C25_EveryCallReturns ==
    /\ \A g \in FairProcs : (gs[g].pc # "idle") ~> (gs[g].pc = "done")
    /\ [](\A g \in FairProcs : gs[g].pc \in {"idle", "done"} => ~Holds(g))
    /\ []((\A g \in FairProcs : gs[g].pc = "done") => mu = NewMutex)
    /\ [](\A g \in FairProcs : gs[g].pc = "brlock" => ~Holds(g))

\* All calls have returned, a BuildPipeline and a Register with a failure,
\* and the lock is free.
C25_Witness ==
    /\ \A g \in FairProcs : gs[g].pc = "done"
    /\ gs[1].op = "BuildPipeline"
    /\ Len(gs[1].names) >= 2
    /\ gs[1].k = 2
    /\ gs[1].err # Nil
    /\ \E g \in FairProcs : gs[g].op = "Register" /\ gs[g].err = Nil
    /\ mu = NewMutex

(***************************************************************************)
(* C26: under ContinueOnError Execute adds to the errors the context has   *)
(* and never clears them.  When a context has been executed k times, each  *)
(* run with the same m failing plugins, it holds k * m errors: the m of    *)
(* the first run in index order, then the m of the second, and so on; the  *)
(* indices ascend within a run's segment and start over at the next.       *)
(***************************************************************************)
\* The stage failures one run of the plugin list adds, in order.
RunErrors(ps) ==
    [j \in 1..Len(FailSeq(ps)) |->
        PipelineError(FailSeq(ps)[j], PluginFailure(ps[FailSeq(ps)[j] + 1]))]

\* A sequence n times over.
RECURSIVE Repeat(_, _)
Repeat(seq, n) == IF n = 0 THEN <<>> ELSE Repeat(seq, n - 1) \o seq

C26_ErrorsAccumulateAcrossRuns ==
    (p.errorStrategy = ContinueOnError /\ Done) =>
        LET m == Cardinality(FailIdx(call.rng))
        IN  /\ call.ret = Nil
            /\ ctx0.Errors = Repeat(RunErrors(call.rng), runs - 1)
            /\ ctx.Errors = ctx0.Errors \o RunErrors(call.rng)
            /\ Len(ctx.Errors) = runs * m
            /\ \A j \in 1..(Len(ctx.Errors) - 1) :
                  (j % m # 0) =>
                      ctx.Errors[j].PluginIndex < ctx.Errors[j + 1].PluginIndex

\* Two runs with failures at 0 and 2: four errors, indices 0, 2, 0, 2.
C26_Witness ==
    /\ p.errorStrategy = ContinueOnError
    /\ Done
    /\ runs = 2
    /\ FailIdx(call.rng) = {0, 2}
    /\ Len(ctx.Errors) = 4
    /\ [j \in 1..4 |-> ctx.Errors[j].PluginIndex] = <<0, 2, 0, 2>>

(***************************************************************************)
(* CompSpec: a pipeline some of whose plugins are composites: a composite  *)
(* holds a pipeline of its own and its Execute returns what that           *)
(* pipeline's Execute returns on the same context.                         *)
(***************************************************************************)
\* The plugin lists of the sub-pipelines: the j-th plugin has an identity
\* past those of the outer plugins.
SubLists ==
    {[j \in 1..Len(fails) |-> [id |-> MaxPlugins + j, fails |-> fails[j]]] :
        fails \in UNION {[1..n -> BOOLEAN] : n \in 0..(MaxPlugins - 1)}}

IsComposite(pl) == "subPipeline" \in DOMAIN pl

\* Mutant: the composite returns the cause of its pipeline's failure.
CompositeExecute_Cause(pl, c) ==
    LET res == RunAlone(pl.subPipeline, c)
    IN  [ctx |-> res.ctx, err |-> IF res.ret = Nil THEN Nil ELSE Unwrap(res.ret)]

\* CompositePlugin.Execute: return p.subPipeline.Execute(ctx)
CompositeExecute(pl, c) ==
    LET res == RunAlone(pl.subPipeline, c)
    IN  [ctx |-> res.ctx, err |-> res.ret]

\* p.Use(plugin) while setting up, with a test plugin or a composite.
CompUse ==
    /\ call.pc = "idle"
    /\ runs = 0
    /\ Len(p.plugins) < MaxPlugins - 1
    /\ \E plugin \in
            {[id |-> Len(p.plugins), fails |-> fails] : fails \in BOOLEAN}
            \cup {[id |-> Len(p.plugins),
                   subPipeline |-> [plugins |-> ps, errorStrategy |-> strategy]] :
                     ps \in SubLists, strategy \in ErrorStrategy} :
          /\ p' = Use(p, plugin)
          /\ used' = Append(used, plugin)
    /\ UNCHANGED <<ctx, call, ran, ctx0, runs, regVars, extVars>>

\* One loop iteration of Execute on the outer pipeline.
CompLoop ==
    /\ call.pc = "loop"
    /\ call.i < Len(call.rng)
    /\ LET plugin == call.rng[call.i + 1]
           res == IF IsComposite(plugin)
                  THEN CompositeExecute(plugin, ctx)
                  ELSE PluginExecute(plugin, ctx)
           next == HandleResult(p.errorStrategy, call, res.ctx, res.err)
       IN  /\ call' = next.call
           /\ ctx' = next.ctx
    /\ ran' = Append(ran, call.i)
    /\ UNCHANGED <<p, ctx0, runs, used, regVars, extVars>>

CompNext ==
    \/ CompUse
    \/ ExecuteBegin
    \/ CompLoop
    \/ ExecuteReturn

CompSpec == Init /\ [][CompNext]_vars

(***************************************************************************)
(* C27: a pipeline used as a plugin keeps the chain of failures under      *)
(* AbortOnError.  When the first outer plugin to fail is a composite at    *)
(* index i whose AbortOnError pipeline fails first at its index j with     *)
(* failure f, Execute returns the stage failure of i, whose cause is the   *)
(* stage failure of j, whose cause is f; the sub-plugins 0..j have run and *)
(* none after j, and the outer plugins 0..i and none after i.              *)
(***************************************************************************)
\* The plugin fails when executed: a test plugin that fails, or a composite
\* whose pipeline returns a failure.
FailsOuter(pl) ==
    IF IsComposite(pl)
    THEN /\ pl.subPipeline.errorStrategy = AbortOnError
         /\ FailIdx(pl.subPipeline.plugins) # {}
    ELSE pl.fails

\* The identities that a plugin which does not fail leaves in the trace.
TraceOfPlugin(pl) ==
    IF IsComposite(pl) THEN IdsOf(pl.subPipeline.plugins) ELSE <<pl.id>>

RECURSIVE TraceOfPlugins(_)
TraceOfPlugins(ps) ==
    IF ps = <<>> THEN <<>>
    ELSE TraceOfPlugin(Head(ps)) \o TraceOfPlugins(Tail(ps))

C27_CompositeKeepsChain ==
    LET failing == {k \in 1..Len(call.rng) : FailsOuter(call.rng[k])}
        first == Min(failing)
        comp == call.rng[first]
        sub == comp.subPipeline.plugins
        j == Min(FailIdx(sub))
    IN  (/\ Done
         /\ p.errorStrategy = AbortOnError
         /\ failing # {}
         /\ IsComposite(comp)) =>
            /\ call.ret = PipelineError(first - 1,
                            PipelineError(j, PluginFailure(sub[j + 1])))
            /\ Unwrap(Unwrap(call.ret)) = PluginFailure(sub[j + 1])
            /\ ran = Indices(first)
            /\ TraceOf(ctx) = TraceOf(ctx0)
                                \o TraceOfPlugins(SubSeq(call.rng, 1, first - 1))
                                \o IdsOf(SubSeq(sub, 1, j + 1))

\* The composite is the second of two outer plugins and its pipeline of two
\* fails at its second plugin.
C27_Witness ==
    /\ Done
    /\ p.errorStrategy = AbortOnError
    /\ Len(call.rng) = 2
    /\ ~IsComposite(call.rng[1])
    /\ IsComposite(call.rng[2])
    /\ call.ret # Nil
    /\ call.ret.PluginIndex = 1
    /\ call.ret.Err.kind = "PipelineError"
    /\ call.ret.Err.PluginIndex = 1
    /\ Len(call.rng[2].subPipeline.plugins) = 2

(***************************************************************************)
(* C28: ServeHTTP answers each request with exactly one outcome, chosen in *)
(* this order: 400, without executing the pipeline, when the body cannot   *)
(* be read or is non-empty and not a JSON object; otherwise 500 when       *)
(* Execute returns a failure; otherwise 422 with the messages of the       *)
(* context's errors when there are any after Execute; otherwise 200 with   *)
(* the context's data.  The context is new for every request: the errors   *)
(* listed are those of this request's run alone.                           *)
(***************************************************************************)
\* A request has been answered.
Served == last.op = "ServeHTTP" /\ last.status # 0

\* The body is non-empty and not a JSON object.
NotAnObject(req) == req.body # "" /\ JSONKind(req.body) # "object"

\* The body is non-empty and neither a JSON object nor JSON null.
NotDecoded(req) == req.body # "" /\ JSONKind(req.body) \notin {"object", "null"}

\* The outcome of the answered request, given whether its body is refused.
Outcome(refused) ==
    IF ~last.req.readable \/ refused
    THEN /\ last.status = 400
         /\ ~last.executed
    ELSE /\ last.executed
         /\ call.pc = "done"
         /\ IF call.ret # Nil
            THEN /\ last.status = 500
                 /\ last.payload = Error(call.ret)
            ELSE IF ctx.Errors # <<>>
            THEN /\ last.status = 422
                 /\ last.payload = formatErrors(RunErrors(call.rng))
            ELSE /\ last.status = 200
                 /\ last.payload = <<GetData(ctx)>>
                 /\ FailIdx(call.rng) = {}

C28_OneOutcomeInOrder == Served => Outcome(NotAnObject(last.req))

\* What holds instead: a body of JSON null is decoded without an error, and
\* the pipeline runs on a context whose data is the nil map.
HttpOutcomeAsDecoded == Served => Outcome(NotDecoded(last.req))

\* A request whose body is null has been answered.
C28_Witness ==
    /\ Served
    /\ last.req.readable
    /\ last.req.body = "null"
    /\ last.executed

\* A request answered 422 after another answered 422 lists its own errors.
HttpSecondUnprocessable ==
    /\ Served
    /\ last.status = 422
    /\ last.prev = 422
    /\ Len(last.payload) = 2

(***************************************************************************)
(* C29: ContextManagerPlugin keeps a sliding window of the last N messages *)
(* of a session, N being maxHistorySize, which is 10 when the plugin is    *)
(* made with a size of zero or less.  Executed again and again on the same *)
(* context, after every run the history stored for a session is the last   *)
(* min(k, N) of the k messages of that session so far, in the order they   *)
(* came, and the conversation of the message just handled is also the      *)
(* value of the metadata key "conversation_state".                         *)
(***************************************************************************)
\* The last min(Len(seq), n) elements of a sequence.
Window(seq, n) ==
    SubSeq(seq, Len(seq) - Min({Len(seq), n}) + 1, Len(seq))

C29_SlidingWindow ==
    last.op = "ContextManagerExecute" =>
        LET N == p.plugins[1].maxHistorySize
            stored == GetState(ctx, ConversationKey(last.msg.SessionID))
            published == Get(ctx, "conversation_state")
        IN  /\ last.err = Nil
            /\ N = IF last.size <= 0 THEN DefaultHistorySize ELSE last.size
            /\ \A s \in Sessions :
                  IF sent[s] = <<>>
                  THEN ~GetState(ctx, ConversationKey(s)).exists
                  ELSE LET h == GetState(ctx, ConversationKey(s)).value.History
                       IN  /\ Len(h) = Min({Len(sent[s]), N})
                           /\ h = Window(sent[s], N)
            /\ published.exists
            /\ published.value = stored.value
            /\ published.value.History = Window(sent[last.msg.SessionID], N)

\* Three messages of one session have gone through a plugin of size two on
\* the one context: the first of them has left the window.
C29_Witness ==
    /\ last.op = "ContextManagerExecute"
    /\ last.size = 2
    /\ Len(sent["s1"]) = 3
    /\ sent["default-session"] = <<>>
    /\ Len(Get(ctx, "conversation_state").value.History) = 2

(***************************************************************************)
(* C30: DecisionRouterPlugin maps the overall score to exactly one action  *)
(* by the documented thresholds: approve when the score is below 0.3,      *)
(* review when it is from 0.3 to 0.7, reject when it is above 0.7; flagged *)
(* is true exactly when the action is not approve; and when the metadata   *)
(* has no moderation_score the call fails and writes no decision.          *)
(***************************************************************************)
\* The outcome of the Execute call just made, rejectFrom(s) saying whether
\* score s is to be rejected.
Decided(rejectFrom(_)) ==
    LET scoreVal == Get(last.before, "moderation_score")
        s == scoreVal.value.OverallScore
        d == Get(ctx, "moderation_decision").value
    IN  IF ~scoreVal.exists
        THEN /\ last.err # Nil
             /\ ctx = last.before
        ELSE IF scoreVal.value.dyn # "ModerationScore"
        THEN /\ last.err # Nil
             /\ ctx = last.before
        ELSE /\ last.err = Nil
             /\ ctx = Set(last.before, "moderation_decision", d)
             /\ d.Score = scoreVal.value
             /\ d.Action \in {"approve", "review", "reject"}
             /\ d.Action = "approve" <=> s < ApproveThreshold
             /\ d.Action = "reject" <=> rejectFrom(s)
             /\ d.Action = "review" <=> (s >= ApproveThreshold /\ ~rejectFrom(s))
             /\ d.Flagged <=> d.Action # "approve"

C30_DecisionByThresholds ==
    last.op = "DecisionRouterExecute" =>
        Decided(LAMBDA s : s > ReviewThreshold)

\* What holds instead: a score equal to ReviewThreshold is rejected.
RouterDecisionAsCoded ==
    last.op = "DecisionRouterExecute" =>
        Decided(LAMBDA s : s >= ReviewThreshold)

\* The plugin has decided on a score equal to ReviewThreshold.
C30_Witness ==
    /\ last.op = "DecisionRouterExecute"
    /\ last.err = Nil
    /\ Get(last.before, "moderation_score").value.OverallScore = ReviewThreshold

\* The plugin has been executed on a context without a score.
RouterNoScore ==
    /\ last.op = "DecisionRouterExecute"
    /\ ~Get(last.before, "moderation_score").exists

=============================================================================
